---- MODULE Spec2Model ----
(***************************************************************************)
(* pyinotifyd: the TaskScheduler debounce engine (scheduler.py) driven by  *)
(* the asyncio event loop, and the daemon's graceful shutdown              *)
(* (Pyinotifyd.shutdown in __init__.py).                                   *)
(*                                                                         *)
(* The event loop is modelled as asyncio runs it: a FIFO queue of ready    *)
(* callbacks; one iteration polls the selector (reader callbacks: inotify  *)
(* events, signals, I/O a job waits for), then moves the due timers to the *)
(* queue, then runs the callbacks that were ready at that point.  A        *)
(* coroutine runs from one await to the next without interruption.         *)
(***************************************************************************)
EXTENDS Integers, Sequences, FiniteSets, TLC

MaxEvents == 2

Paths == {"a", "b"}
Keys == Paths \cup {"singlejob"}
Evs == 1..MaxEvents
Handles == 1..(2 * MaxEvents)

VARIABLES
    delay,      \* TaskScheduler._delay
    singlejob,  \* TaskScheduler._singlejob
    files,      \* TaskScheduler._files
    dirs,       \* TaskScheduler._dirs
    pause,      \* TaskScheduler._pause
    tasks,      \* TaskScheduler._tasks: key -> id of the TaskState, 0 = no entry
    tstate,     \* the TaskState objects: id -> [task, cancelable]; task 0 = None
    handle,     \* the asyncio Tasks _run_job creates: handle id -> status
    events,     \* the inotify events delivered so far: id -> [flag, path, dir]
    nev,        \* number of events delivered
    act,        \* process_event / process_cancel_event activations: id -> [pos, ts]
    sshut,      \* the TaskScheduler.shutdown coroutine
    dshut,      \* the Pyinotifyd.shutdown coroutine: its position
    watching,   \* Watch._notifier is not None
    ready,      \* the loop's queue of ready callbacks
    ntodo,      \* callbacks left to run in the current loop iteration
    phase,      \* "poll" (selector), "timers" (due timers), "run" (callbacks)
    shell,      \* ShellScheduler: its _cmd, the latest job's event and command
    fm,         \* FileManagerScheduler: its rules, the file system, the latest
                \* process_event call and the latest job
    gens,       \* the Pyinotifyd instances built so far
    ngen,       \* their number
    cur,        \* DaemonInstance._instance
    dflag,      \* DaemonInstance._shutdown
    sigs,       \* the tasks the signal handlers created, not yet run
    nsig,       \* number of signals received
    term,       \* the DaemonInstance.shutdown coroutine: position and instance
    dlog,       \* the statements the reloads executed, in their order
    last,       \* the latest EventMap.process_default call and its tasks
    built,      \* the from_cfg_file calls of reload: their number, the latest outcome
    halted      \* loop.stop() was called

\* The scheduler and its loop.
svars == <<delay, singlejob, files, dirs, pause, tasks, tstate, handle, events,
           nev, act, sshut, dshut, watching, ready, ntodo, phase, shell, fm>>

\* The daemon layer.
dvars == <<gens, ngen, cur, dflag, sigs, nsig, term, dlog, last, built, halted>>

vars == <<svars, dvars>>

\* What no handler of the scheduler writes: its configuration and the daemon layer.
cfgv == <<delay, singlejob, files, dirs, shell, fm, dvars>>

\* Activation a creates at most one TaskState (id a), one debounce timer
\* (handle 2a-1) and one job task (handle 2a, the call self._job(event a, id)).
SleepH(a) == 2 * a - 1
JobH(a) == 2 * a
Owner(h) == (h + 1) \div 2
IsJob(h) == h % 2 = 0

Finished(st) == st \in {"done", "cancelled", "raised"}

Item(k, id) == [k |-> k, id |-> id]

NoEvent == [flag |-> "sched", path |-> "a", dir |-> FALSE]

NoShut == [pos |-> "none", fs |-> {}, count |-> 0, woken |-> FALSE,
           tmo |-> "none", gs |-> {}, outer |-> FALSE]

RECURSIVE SortedSeq(_)
SortedSeq(S) ==
    IF S = {} THEN <<>>
    ELSE LET m == CHOOSE x \in S : \A y \in S : x <= y
         IN <<m>> \o SortedSeq(S \ {m})

RECURSIVE MapSeq(_, _)
MapSeq(s, k) == IF s = <<>> THEN <<>> ELSE <<Item(k, Head(s))>> \o MapSeq(Tail(s), k)

\* TaskScheduler.taskindex
taskindexPerPath(e) == e.path
taskindexSingle(e) == "singlejob"
taskindex(e) == IF singlejob THEN "singlejob" ELSE e.path

\* The acceptance filter of process_event.
Accepted(e) == (~e.dir /\ files) \/ (e.dir /\ dirs)

\* asyncio.Task.cancel(): the status of a task after cancel() was called on it.
\* A finished task is left alone; any other task ends cancelled at its next step.
CancelStatus(st) == IF Finished(st) THEN st ELSE "cancelreq"

\* cancel() on a task that waits on a pending future cancels that future, which
\* schedules the task's wakeup; in the other states a step is already queued
\* (or the task is finished).
CancelWakes(st) == st \in {"wait", "due"}

CancelIn(hs, S) == [h \in Handles |-> IF h \in S THEN CancelStatus(hs[h]) ELSE hs[h]]
CancelQ(hs, S) == MapSeq(SortedSeq({h \in S : CancelWakes(hs[h])}), "task")

(***************************************************************************)
(* The daemon layer (__init__.py): the configuration file, EventMap,       *)
(* Watch, Pyinotifyd and DaemonInstance.  A scheduler is an opaque object  *)
(* here: its pause() and shutdown() calls are counted, its shutdown        *)
(* coroutine ends at some later step.                                      *)
(***************************************************************************)

MaxSignals == 2

\* Pyinotifyd instances: the one main() builds and one per reload.
Gens == 1..(MaxSignals + 1)

\* Some of EventMap.flags.
Flags == {"IN_CLOSE_WRITE", "IN_DELETE", "IN_CREATE"}
FlagSeq == <<"IN_CLOSE_WRITE", "IN_DELETE", "IN_CREATE">>

\* The scheduler objects a configuration file creates: two TaskSchedulers and
\* Cancel(first TaskScheduler).
Objs == 1..3
IsCancelAdapter(o) == o = 3

WatchIdx == 1..2
DPaths == {"x", "y"}

\* event.maskname as the tokens of the string, "|" being the separator.
Masks == {<<"IN_CLOSE_WRITE">>, <<"IN_DELETE">>, <<"IN_DELETE", "|", "IN_ISDIR">>,
          <<"IN_CREATE">>, <<"IN_CREATE", "|", "IN_ISDIR">>}
DEvents == [maskname : Masks, pathname : DPaths]

\* Watch(...) calls of a configuration file: event_map, default_sched (0 = None)
\* and exclude_filter (the pathnames it matches).
WatchArgs1 == [event_map |-> ("IN_CLOSE_WRITE" :> <<1>> @@ "IN_DELETE" :> <<3>>),
               default_sched |-> 0, exclude |-> {}]
WatchArgs2 == [event_map |-> ("IN_CLOSE_WRITE" :> <<2, 1>> @@ "IN_DELETE" :> <<2>>),
               default_sched |-> 0, exclude |-> {"x"}]
WatchArgs3 == [event_map |-> <<>>, default_sched |-> 1, exclude |-> {}]
WatchArgs4 == [event_map |-> ("IN_CREATE" :> <<1, 2>>), default_sched |-> 0, exclude |-> {"y"}]

\* Configuration files: whether exec() of the text succeeds, and the watches.
CfgFiles == {[syntax_ok |-> TRUE, watches |-> <<WatchArgs1>>],
             [syntax_ok |-> TRUE, watches |-> <<WatchArgs1, WatchArgs2>>],
             [syntax_ok |-> TRUE, watches |-> <<WatchArgs3>>],
             [syntax_ok |-> TRUE, watches |-> <<>>],
             [syntax_ok |-> FALSE, watches |-> <<>>]}

\* The attributes of an EventMap object: those of the class and those inherited
\* from pyinotify.ProcessEvent.
EventMapAttrs == {"flags", "my_init", "set_scheduler", "set_exclude_filter",
                  "process_default", "schedulers", "__init__", "__call__",
                  "nested_pevent", "process_IN_Q_OVERFLOW"}

NoEventMap == [ok |-> FALSE, map |-> <<>>, exclude |-> {}]

\* EventMap.my_init: "self.set(flag, default_sched)" for every flag when a default
\* scheduler is given, then set_scheduler for the items of event_map.
MyInit(args) ==
    IF args.default_sched # 0 /\ "set" \notin EventMapAttrs
    THEN NoEventMap
    ELSE LET base == IF args.default_sched # 0
                     THEN [f \in Flags |-> <<args.default_sched>>]
                     ELSE <<>>
             em == args.event_map
         IN [ok |-> TRUE,
             map |-> [f \in DOMAIN base \cup DOMAIN em |->
                          IF f \in DOMAIN em THEN em[f] ELSE base[f]],
             exclude |-> args.exclude]

\* Pyinotifyd.from_cfg_file: the file is executed; it builds the watches and
\* their EventMaps.  Any exception leaves from_cfg_file.
FromCfgFile(file) ==
    LET ws == [i \in DOMAIN file.watches |-> MyInit(file.watches[i])]
    IN IF file.syntax_ok /\ \A i \in DOMAIN ws : ws[i].ok
       THEN [ok |-> TRUE, watches |-> ws]
       ELSE [ok |-> FALSE, watches |-> <<>>]

\* A Pyinotifyd instance: its watches, the pause() and shutdown() calls its
\* schedulers got, the state of their shutdown coroutines, the start() and
\* stop() calls its watches got, and the position of Pyinotifyd.shutdown.
NewGen(ws) == [watches |-> ws,
               pc |-> [o \in Objs |-> 0],
               sc |-> [o \in Objs |-> 0],
               ss |-> [o \in Objs |-> "idle"],
               wstart |-> [i \in WatchIdx |-> 0],
               wstop |-> [i \in WatchIdx |-> 0],
               drain |-> "none"]

NoDispatch == [g |-> 0, w |-> 0, ev |-> [maskname |-> <<"IN_CREATE">>, pathname |-> "x"],
               tasks |-> <<>>]

\* No from_cfg_file call yet.
NoBuild == [n |-> 0, ok |-> TRUE, default |-> FALSE]

\* A Watch of the file is given a default scheduler.
UsesDefault(file) == \E i \in DOMAIN file.watches : file.watches[i].default_sched # 0

\* list(set(l)), the order being of no consequence.
ListKeep(l) == l
ListSet(l) == SortedSeq({l[i] : i \in DOMAIN l})

RECURSIVE ExtendMap(_, _)
ExtendMap(m, fs) ==
    IF fs = <<>> THEN <<>>
    ELSE (IF Head(fs) \in DOMAIN m THEN m[Head(fs)] ELSE <<>>) \o ExtendMap(m, Tail(fs))

\* EventMap.schedulers
EventMapSchedulers(em) == ListSet(ExtendMap(em.map, FlagSeq))

RECURSIVE ExtendWatches(_)
ExtendWatches(ws) ==
    IF ws = <<>> THEN <<>>
    ELSE EventMapSchedulers(Head(ws)) \o ExtendWatches(Tail(ws))

\* Pyinotifyd.schedulers
PyinotifydSchedulers(G) == ListSet(ExtendWatches(G.watches))

CountIn(l, x) == Cardinality({i \in DOMAIN l : l[i] = x})

\* Pyinotifyd.pause
PyinotifydPause(G) ==
    [G EXCEPT !.pc = [o \in Objs |-> @[o] + CountIn(PyinotifydSchedulers(G), o)]]

\* Pyinotifyd.start
PyinotifydStart(G) ==
    [G EXCEPT !.wstart = [i \in WatchIdx |-> IF i \in DOMAIN G.watches THEN @[i] + 1 ELSE @[i]]]

\* Pyinotifyd.shutdown: the watches are stopped.
StopWatches(G) ==
    [G EXCEPT !.wstop = [i \in WatchIdx |-> IF i \in DOMAIN G.watches THEN @[i] + 1 ELSE @[i]]]

\* The outcomes of the loop over watch.stop(): every notifier was stopped, or the
\* teardown of a notifier raised.
StopResults == {"stopped", "raised"}

\* Pyinotifyd.shutdown, the loop over the watches: it stops them all and the
\* coroutine returns, or notifier.stop() of the first watch raises and the
\* exception leaves the coroutine.
StopWatchesEnds(G, r) ==
    IF r = "raised" /\ G.watches # <<>>
    THEN [G EXCEPT !.drain = "stoperror"]
    ELSE [StopWatches(G) EXCEPT !.drain = "done"]

\* Pyinotifyd.shutdown up to the gather: shutdown(timeout) of every scheduler in
\* set(schedulers) is called and wrapped in a task; without schedulers the
\* watches are stopped at once.
PyinotifydShutdownStart(G, r) ==
    LET l == ListSet(PyinotifydSchedulers(G))
    IN IF l = <<>>
       THEN StopWatchesEnds(G, r)
       ELSE [G EXCEPT !.sc = [o \in Objs |-> @[o] + CountIn(l, o)],
                      !.ss = [o \in Objs |-> IF CountIn(l, o) > 0 THEN "running" ELSE @[o]],
                      !.drain = "gather"]

\* No ShellScheduler was constructed.
NoShell == [cmd |-> <<>>, ev |-> <<>>, out |-> <<>>]

\* No FileManagerScheduler was constructed.
NoFm == [rules |-> <<>>, fs |-> <<>>, ev |-> <<>>, delegated |-> FALSE, job |-> <<>>]

\* The daemon layer at rest: one instance without watches.
DaemonIdle ==
    /\ gens = [g \in Gens |-> NewGen(<<>>)]
    /\ ngen = 1
    /\ cur = 1
    /\ dflag = FALSE
    /\ sigs = <<>>
    /\ nsig = 0
    /\ term = [pos |-> "none", g |-> 0]
    /\ dlog = <<>>
    /\ last = NoDispatch
    /\ built = NoBuild
    /\ halted = FALSE

\* A scheduler at rest: nothing delivered, nothing scheduled.
LoopIdle ==
    /\ pause = FALSE
    /\ tasks = [k \in Keys |-> 0]
    /\ tstate = [t \in Evs |-> [task |-> 0, cancelable |-> TRUE]]
    /\ handle = [h \in Handles |-> "none"]
    /\ events = [a \in Evs |-> NoEvent]
    /\ nev = 0
    /\ act = [a \in Evs |-> [pos |-> "none", ts |-> 0]]
    /\ sshut = NoShut
    /\ dshut = "none"
    /\ watching = TRUE
    /\ ready = <<>>
    /\ ntodo = 0
    /\ phase = "poll"

\* A scheduler at rest, constructed with its defaults.
SchedIdle ==
    /\ delay = 0
    /\ singlejob = FALSE
    /\ files = TRUE
    /\ dirs = FALSE
    /\ LoopIdle

(***************************************************************************)
(* The scheduler: the state after construction.                            *)
(***************************************************************************)

Init ==
    /\ delay \in {0, 1}
    /\ singlejob \in BOOLEAN
    /\ files = TRUE
    /\ dirs = FALSE
    /\ pause = FALSE
    /\ tasks = [k \in Keys |-> 0]
    /\ tstate = [t \in Evs |-> [task |-> 0, cancelable |-> TRUE]]
    /\ handle = [h \in Handles |-> "none"]
    /\ events = [a \in Evs |-> NoEvent]
    /\ nev = 0
    /\ act = [a \in Evs |-> [pos |-> "none", ts |-> 0]]
    /\ sshut = NoShut
    /\ dshut = "none"
    /\ watching = TRUE
    /\ ready = <<>>
    /\ ntodo = 0
    /\ phase = "poll"
    /\ shell = NoShell
    /\ fm = NoFm
    /\ DaemonIdle

(***************************************************************************)
(* The loop: polling.                                                      *)
(***************************************************************************)

\* A callback handed to the event loop is appended to its queue of ready
\* callbacks, which the loop runs first in, first out.
CallSoonFirst(q, item) == <<item>> \o q
CallSoon(q, item) == Append(q, item)

\* The notifier's reader callback delivers one inotify event.  Paths are named in
\* the order of their first appearance.
Arrive(flag, path, dir) ==
    /\ phase = "poll"
    /\ watching
    /\ nev < MaxEvents
    /\ path = "b" => \E x \in 1..nev : events[x].path = "a"
    /\ nev' = nev + 1
    /\ events' = [events EXCEPT ![nev + 1] = [flag |-> flag, path |-> path, dir |-> dir]]
    /\ act' = [act EXCEPT ![nev + 1].pos = "notify"]
    /\ ready' = CallSoon(ready, Item("notify", nev + 1))
    /\ UNCHANGED <<cfgv, pause, tasks, tstate, handle, sshut, dshut, watching, ntodo, phase>>

\* DaemonInstance.reload replaces this daemon: its step "old_instance.pause();
\* asyncio.create_task(old_instance.shutdown())" becomes ready.
RequestReload ==
    /\ phase = "poll"
    /\ dshut = "none"
    /\ dshut' = "requested"
    /\ ready' = CallSoon(ready, Item("reload", 0))
    /\ UNCHANGED <<cfgv, pause, tasks, tstate, handle, events, nev, act, sshut,
                   watching, ntodo, phase>>

\* What a running job waits for happens: through the selector (in phase "poll")
\* or through a timer of the job (in phase "timers").
JobIO(h) ==
    /\ phase \in {"poll", "timers"}
    /\ IsJob(h)
    /\ handle[h] = "wait"
    /\ handle' = [handle EXCEPT ![h] = "due"]
    /\ ready' = CallSoon(ready, Item("future", h))
    /\ UNCHANGED <<cfgv, pause, tasks, tstate, events, nev, act, sshut, dshut,
                   watching, ntodo, phase>>

\* The debounce delay of a sleep task has passed.
TimerDue(h) ==
    /\ phase \in {"poll", "timers"}
    /\ ~IsJob(h)
    /\ handle[h] = "wait"
    /\ handle' = [handle EXCEPT ![h] = "due"]
    /\ ready' = CallSoon(ready, Item("future", h))
    /\ phase' = "timers"
    /\ UNCHANGED <<cfgv, pause, tasks, tstate, events, nev, act, sshut, dshut,
                   watching, ntodo>>

\* The timeout of asyncio.wait in TaskScheduler.shutdown has passed.
TimeoutDue ==
    /\ phase \in {"poll", "timers"}
    /\ sshut.tmo = "armed"
    /\ sshut' = [sshut EXCEPT !.tmo = "due"]
    /\ ready' = CallSoon(ready, Item("timeout", 0))
    /\ phase' = "timers"
    /\ UNCHANGED <<cfgv, pause, tasks, tstate, handle, events, nev, act, dshut,
                   watching, ntodo>>

(***************************************************************************)
(* The loop: running one ready callback.                                   *)
(***************************************************************************)

\* A loop iteration runs the callbacks that are in the queue when it starts (after
\* the poll); what they schedule runs in the next iteration.
ToRun == IF phase = "run" THEN ntodo ELSE Len(ready)

Running(k) == ToRun > 0 /\ Head(ready).k = k

\* The callback at the head is done; q are the callbacks it scheduled.
Ran(q) ==
    /\ ready' = Tail(ready) \o q
    /\ ntodo' = ToRun - 1
    /\ phase' = IF ToRun = 1 THEN "poll" ELSE "run"

\* EventMap.process_default hands the event to the scheduler bound to its flag:
\* _SchedulerList.process_event creates a task for the scheduler's coroutine
\* (process_event, or process_cancel_event through the Cancel adapter).
Notify(a) ==
    /\ Running("notify")
    /\ Head(ready).id = a
    /\ act' = [act EXCEPT ![a].pos = "new"]
    /\ Ran(<<Item("pe_start", a)>>)
    /\ UNCHANGED <<cfgv, pause, tasks, tstate, handle, events, nev, sshut, dshut, watching>>

\* process_event, "else" branch: the event is skipped when the entry's job has started.
SkipsNever(t) == FALSE
SkipsOngoing(t) == t # 0 /\ ~tstate[t].cancelable

\* process_event: the handles it calls cancel() on (task_state.task of a cancelable entry).
EventCancelsNothing(t) == {}
EventCancels(t) == IF t = 0 THEN {} ELSE {tstate[t].task}

\* process_event: restart is set, and _run_job is entered, only when not paused.
EntersRunJob == ~pause

\* _run_job: the sleep task of activation a is created and stored in the TaskState.
SleepCreated(ts, a, t) == [ts EXCEPT ![t].task = SleepH(a)]

\* _run_job: the job task of activation a is created and stored in the TaskState,
\* and the TaskState stops being cancelable.
JobCreated(ts, a, t) == [ts EXCEPT ![t] = [task |-> JobH(a), cancelable |-> FALSE]]

\* process_event, KeyError branch: TaskScheduler.TaskState() is a new object.
ReusedTaskState(a) == 1
NewTaskState(a) == a

\* TaskScheduler.process_event, run as a task, up to its first await.
ProcessEvent(a) ==
    /\ Running("pe_start")
    /\ Head(ready).id = a
    /\ events[a].flag = "sched"
    /\ LET e == events[a]
           k == taskindex(e)
           t == tasks[k]
       IN IF ~Accepted(e)
          THEN /\ act' = [act EXCEPT ![a].pos = "filtered"]
               /\ Ran(<<>>)
               /\ UNCHANGED <<tasks, tstate, handle>>
          ELSE IF SkipsOngoing(t)
          THEN /\ act' = [act EXCEPT ![a] = [pos |-> "skip", ts |-> t]]
               /\ Ran(<<>>)
               /\ UNCHANGED <<tasks, tstate, handle>>
          ELSE IF t # 0 /\ tstate[t].task = 0
          THEN \* task_state.task is None: AttributeError
               /\ act' = [act EXCEPT ![a] = [pos |-> "error", ts |-> t]]
               /\ Ran(<<>>)
               /\ UNCHANGED <<tasks, tstate, handle>>
          ELSE LET t2 == IF t = 0 THEN NewTaskState(a) ELSE t
                   ts1 == IF t = 0
                          THEN [tstate EXCEPT ![t2] = [task |-> 0, cancelable |-> TRUE]]
                          ELSE tstate
                   hs1 == CancelIn(handle, EventCancels(t))
                   q1 == CancelQ(handle, EventCancels(t))
               IN /\ tasks' = [tasks EXCEPT ![k] = t2]
                  /\ IF ~EntersRunJob
                     THEN /\ act' = [act EXCEPT ![a] = [pos |-> "paused", ts |-> t2]]
                          /\ tstate' = ts1
                          /\ handle' = hs1
                          /\ Ran(q1)
                     ELSE IF delay > 0
                     THEN /\ act' = [act EXCEPT ![a] = [pos |-> "sleep", ts |-> t2]]
                          /\ tstate' = SleepCreated(ts1, a, t2)
                          /\ handle' = [hs1 EXCEPT ![SleepH(a)] = "new"]
                          /\ Ran(q1 \o <<Item("task", SleepH(a))>>)
                     ELSE /\ act' = [act EXCEPT ![a] = [pos |-> "job", ts |-> t2]]
                          /\ tstate' = JobCreated(ts1, a, t2)
                          /\ handle' = [hs1 EXCEPT ![JobH(a)] = "new"]
                          /\ Ran(q1 \o <<Item("task", JobH(a))>>)
    /\ UNCHANGED <<cfgv, pause, events, nev, sshut, dshut, watching>>

\* process_cancel_event: the entry is cancelled and removed when it is cancelable.
CancelEventCancelsAny(t) == TRUE
CancelEventCancels(t) == tstate[t].cancelable

\* process_cancel_event: the handles it calls cancel() on.
CancelEventTargetsNothing(t) == {}
CancelEventTargets(t) == {tstate[t].task}

\* TaskScheduler.process_cancel_event, run as a task (it has no await).
ProcessCancelEvent(a) ==
    /\ Running("pe_start")
    /\ Head(ready).id = a
    /\ events[a].flag = "cancel"
    /\ LET k == taskindex(events[a])
           t == tasks[k]
       IN IF t = 0
          THEN /\ act' = [act EXCEPT ![a].pos = "absent"]
               /\ Ran(<<>>)
               /\ UNCHANGED <<tasks, tstate, handle>>
          ELSE IF ~CancelEventCancels(t)
          THEN /\ act' = [act EXCEPT ![a] = [pos |-> "skip", ts |-> t]]
               /\ Ran(<<>>)
               /\ UNCHANGED <<tasks, tstate, handle>>
          ELSE IF tstate[t].task = 0
          THEN \* task_state.task is None: AttributeError
               /\ act' = [act EXCEPT ![a] = [pos |-> "error", ts |-> t]]
               /\ Ran(<<>>)
               /\ UNCHANGED <<tasks, tstate, handle>>
          ELSE /\ act' = [act EXCEPT ![a] = [pos |-> "cancelled", ts |-> t]]
               /\ handle' = CancelIn(handle, CancelEventTargets(t))
               /\ tstate' = [tstate EXCEPT ![t].task = 0]
               /\ tasks' = [tasks EXCEPT ![k] = 0]
               /\ Ran(CancelQ(handle, CancelEventTargets(t)))
    /\ UNCHANGED <<cfgv, pause, events, nev, sshut, dshut, watching>>

\* Cancel.process_event is the bound method process_cancel_event of the target
\* scheduler (setattr in Cancel.__init__).
CancelProcessEvent(a) == ProcessCancelEvent(a)

\* The future a task waits on gets its result (the timer of asyncio.sleep fires,
\* the job's I/O completes) unless it was cancelled; the task's wakeup is scheduled.
FutureDone(h) ==
    /\ Running("future")
    /\ Head(ready).id = h
    /\ IF handle[h] = "due"
       THEN /\ handle' = [handle EXCEPT ![h] = "fired"]
            /\ Ran(<<Item("task", h)>>)
       ELSE /\ Ran(<<>>)
            /\ UNCHANGED handle
    /\ UNCHANGED <<cfgv, pause, tasks, tstate, events, nev, act, sshut, dshut, watching>>

\* The done callbacks of handle h, in the order they were added: the activation
\* awaiting it, then asyncio.wait's or asyncio.gather's callback of shutdown.
DoneCallbacks(h) ==
    <<Item("pe_wake", Owner(h))>>
    \o (IF sshut.pos = "wait" /\ h \in sshut.fs THEN <<Item("wait_cb", h)>> ELSE <<>>)
    \o (IF sshut.pos = "gather" /\ h \in sshut.gs THEN <<Item("gather_cb", h)>> ELSE <<>>)

\* One step of the asyncio Task h (a sleep task or a job task).
TaskStep(h) ==
    /\ Running("task")
    /\ Head(ready).id = h
    /\ \E out \in {"wait", "done", "raised"} :
          /\ CASE handle[h] = "cancelreq" -> out = "done"
               [] ~IsJob(h) -> out = (IF handle[h] = "new" THEN "wait" ELSE "done")
               [] OTHER -> handle[h] = "fired" => out # "wait"
          /\ LET st == IF handle[h] = "cancelreq" THEN "cancelled" ELSE out
             IN /\ handle' = [handle EXCEPT ![h] = st]
                /\ Ran(IF Finished(st) THEN DoneCallbacks(h) ELSE <<>>)
    /\ UNCHANGED <<cfgv, pause, tasks, tstate, events, nev, act, sshut, dshut, watching>>

\* _run_job after "await task_state.task" on the sleep task: CancelledError means
\* return, a normal result means the job is started.
StartsJobAlways(st) == TRUE
StartsJob(st) == st = "done"

\* _run_job's finally block: del self._tasks[task_index].
EpilogueKeeps(k) == tasks
Epilogue(k) == [tasks EXCEPT ![k] = 0]

\* process_event (inside _run_job) resumes from its await.
ResumeRunJob(a) ==
    /\ Running("pe_wake")
    /\ Head(ready).id = a
    /\ LET k == taskindex(events[a])
           t == act[a].ts
       IN IF act[a].pos = "sleep"
          THEN IF StartsJob(handle[SleepH(a)])
               THEN /\ act' = [act EXCEPT ![a].pos = "job"]
                    /\ tstate' = JobCreated(tstate, a, t)
                    /\ handle' = [handle EXCEPT ![JobH(a)] = "new"]
                    /\ Ran(<<Item("task", JobH(a))>>)
                    /\ UNCHANGED tasks
               ELSE /\ act' = [act EXCEPT ![a].pos = "superseded"]
                    /\ Ran(<<>>)
                    /\ UNCHANGED <<tasks, tstate, handle>>
          ELSE /\ act[a].pos = "job"
               /\ IF tasks[k] = 0
                  THEN act' = [act EXCEPT ![a].pos = "keyerror"]
                  ELSE act' = [act EXCEPT ![a].pos =
                                  CASE handle[JobH(a)] = "done" -> "finished"
                                    [] handle[JobH(a)] = "cancelled" -> "jobcancelled"
                                    [] OTHER -> "raised"]
               /\ tasks' = Epilogue(k)
               /\ Ran(<<>>)
               /\ UNCHANGED <<tstate, handle>>
    /\ UNCHANGED <<cfgv, pause, events, nev, sshut, dshut, watching>>

(***************************************************************************)
(* pause and shutdown.                                                     *)
(***************************************************************************)

\* TaskScheduler.pause
SchedPause == TRUE

\* What pause() and shutdown() of a Cancel adapter can reach of its target.
SchedState == [pause |-> pause, tasks |-> tasks]

\* TaskScheduler.pause as a function of the scheduler's state.
TaskSchedulerPause(s) == [s EXCEPT !.pause = SchedPause]

\* Cancel.pause ("pass"): the target's state after the call.
CancelPausesTarget(s) == [s EXCEPT !.pause = TRUE]
CancelPause(s) == s

\* Cancel.shutdown ("pass"): the target's state after the coroutine ran.
CancelShutdown(s) == s

\* DaemonInstance.reload: Pyinotifyd.pause() calls pause() of the schedulers of
\* the EventMap, the TaskScheduler and its Cancel adapter; then a task running
\* Pyinotifyd.shutdown() is created.
Reload ==
    /\ Running("reload")
    /\ pause' = TaskSchedulerPause(CancelPause(SchedState)).pause
    /\ tasks' = TaskSchedulerPause(CancelPause(SchedState)).tasks
    /\ dshut' = "new"
    /\ Ran(<<Item("dshut_start", 0)>>)
    /\ UNCHANGED <<cfgv, tstate, handle, events, nev, act, sshut, watching>>

\* Pyinotifyd.shutdown up to "await asyncio.gather(*tasks)": gather wraps the
\* scheduler's shutdown coroutine in a task.
DaemonShutdownStart ==
    /\ Running("dshut_start")
    /\ dshut' = "gather"
    /\ sshut' = [sshut EXCEPT !.pos = "new"]
    /\ pause' = CancelShutdown(SchedState).pause
    /\ tasks' = CancelShutdown(SchedState).tasks
    /\ Ran(<<Item("sshut_start", 0)>>)
    /\ UNCHANGED <<cfgv, tstate, handle, events, nev, act, watching>>

\* TaskScheduler.shutdown: pending = [t.task for t in self._tasks.values()]
ShutdownPending == {tstate[tasks[k]].task : k \in {x \in Keys : tasks[x] # 0}}

\* TaskScheduler.shutdown up to "await asyncio.wait(pending, timeout)".  wait adds
\* its callback to every task (a finished task schedules it at once) and arms the
\* timeout; a None among the handles makes it raise.
SchedShutdownStart ==
    /\ Running("sshut_start")
    /\ pause' = TRUE
    /\ LET fs == ShutdownPending
       IN IF fs = {}
          THEN /\ sshut' = [sshut EXCEPT !.pos = "done"]
               /\ Ran(<<Item("dgather_cb", 0)>>)
          ELSE IF 0 \in fs
          THEN /\ sshut' = [sshut EXCEPT !.pos = "error"]
               /\ Ran(<<Item("dgather_cb", 0)>>)
          ELSE /\ sshut' = [sshut EXCEPT !.pos = "wait", !.fs = fs,
                                         !.count = Cardinality(fs), !.tmo = "armed"]
               /\ Ran(MapSeq(SortedSeq({h \in fs : Finished(handle[h])}), "wait_cb"))
    /\ UNCHANGED <<cfgv, tasks, tstate, handle, events, nev, act, dshut, watching>>

\* asyncio.wait's timeout callback (_release_waiter).
TimeoutFire ==
    /\ Running("timeout")
    /\ IF sshut.tmo = "due" /\ ~sshut.woken
       THEN /\ sshut' = [sshut EXCEPT !.tmo = "fired", !.woken = TRUE]
            /\ Ran(<<Item("sshut_wake", 0)>>)
       ELSE /\ Ran(<<>>)
            /\ UNCHANGED sshut
    /\ UNCHANGED <<cfgv, pause, tasks, tstate, handle, events, nev, act, dshut, watching>>

\* asyncio.wait's done callback (_on_completion) for handle h.
WaitCb(h) ==
    /\ Running("wait_cb")
    /\ Head(ready).id = h
    /\ IF sshut.count = 1
       THEN /\ sshut' = [sshut EXCEPT !.count = 0, !.woken = TRUE,
                            !.tmo = IF @ \in {"armed", "due"} THEN "cancelled" ELSE @]
            /\ Ran(IF sshut.woken THEN <<>> ELSE <<Item("sshut_wake", 0)>>)
       ELSE /\ sshut' = [sshut EXCEPT !.count = @ - 1]
            /\ Ran(<<>>)
    /\ UNCHANGED <<cfgv, pause, tasks, tstate, handle, events, nev, act, dshut, watching>>

\* TaskScheduler.shutdown: the tasks it cancels after asyncio.wait returned, those
\* that are not done.
Stragglers == {h \in sshut.fs : ~Finished(handle[h])}

\* TaskScheduler.shutdown after asyncio.wait returned: the tasks not done are
\* cancelled and awaited with asyncio.gather.
SchedShutdownWake ==
    /\ Running("sshut_wake")
    /\ IF Stragglers = {}
       THEN /\ sshut' = [sshut EXCEPT !.pos = "done",
                             !.tmo = IF @ \in {"armed", "due"} THEN "cancelled" ELSE @]
            /\ Ran(<<Item("dgather_cb", 0)>>)
            /\ UNCHANGED handle
       ELSE /\ sshut' = [sshut EXCEPT !.pos = "gather", !.gs = Stragglers,
                             !.tmo = IF @ \in {"armed", "due"} THEN "cancelled" ELSE @]
            /\ handle' = CancelIn(handle, Stragglers)
            /\ Ran(CancelQ(handle, Stragglers))
    /\ UNCHANGED <<cfgv, pause, tasks, tstate, events, nev, act, dshut, watching>>

\* asyncio.gather's done callback for handle h: the first cancelled child sets
\* the CancelledError on the outer future.
GatherCb(h) ==
    /\ Running("gather_cb")
    /\ Head(ready).id = h
    /\ IF sshut.outer
       THEN /\ Ran(<<>>)
            /\ UNCHANGED sshut
       ELSE /\ sshut' = [sshut EXCEPT !.outer = TRUE]
            /\ Ran(<<Item("sshut_wake2", 0)>>)
    /\ UNCHANGED <<cfgv, pause, tasks, tstate, handle, events, nev, act, dshut, watching>>

\* TaskScheduler.shutdown after "await asyncio.gather(*pending)": the
\* CancelledError is passed over and the coroutine returns.
SchedShutdownDone ==
    /\ Running("sshut_wake2")
    /\ sshut' = [sshut EXCEPT !.pos = "done"]
    /\ Ran(<<Item("dgather_cb", 0)>>)
    /\ UNCHANGED <<cfgv, pause, tasks, tstate, handle, events, nev, act, dshut, watching>>

\* The done callback of Pyinotifyd.shutdown's gather: its only child is done.
DaemonGatherCb ==
    /\ Running("dgather_cb")
    /\ Ran(<<Item("dshut_wake", 0)>>)
    /\ UNCHANGED <<cfgv, pause, tasks, tstate, handle, events, nev, act, sshut, dshut,
                   watching>>

\* Pyinotifyd.shutdown after the gather: an exception of the scheduler's shutdown
\* propagates, otherwise every watch is stopped.
DaemonShutdownWake ==
    /\ Running("dshut_wake")
    /\ IF sshut.pos = "error"
       THEN /\ dshut' = "error"
            /\ UNCHANGED watching
       ELSE /\ dshut' = "done"
            /\ watching' = FALSE
    /\ Ran(<<>>)
    /\ UNCHANGED <<cfgv, pause, tasks, tstate, handle, events, nev, act, sshut>>

Next ==
    \/ \E f \in {"sched", "cancel"}, p \in Paths, d \in BOOLEAN : Arrive(f, p, d)
    \/ RequestReload
    \/ \E h \in Handles : JobIO(h)
    \/ \E h \in Handles : TimerDue(h)
    \/ TimeoutDue
    \/ \E a \in Evs : Notify(a)
    \/ \E a \in Evs : ProcessEvent(a)
    \/ \E a \in Evs : CancelProcessEvent(a)
    \/ \E h \in Handles : FutureDone(h)
    \/ \E h \in Handles : TaskStep(h)
    \/ \E a \in Evs : ResumeRunJob(a)
    \/ Reload
    \/ DaemonShutdownStart
    \/ SchedShutdownStart
    \/ TimeoutFire
    \/ \E h \in Handles : WaitCb(h)
    \/ SchedShutdownWake
    \/ \E h \in Handles : GatherCb(h)
    \/ SchedShutdownDone
    \/ DaemonGatherCb
    \/ DaemonShutdownWake

Spec == Init /\ [][Next]_vars

(***************************************************************************)
(* The daemon layer: reload, shutdown and the dispatch of events.          *)
(***************************************************************************)

\* asyncio.gather in Pyinotifyd.shutdown wakes the coroutine when every child is
\* done, or with the exception of the first child that raised.
GatherWakesEarly(G) == TRUE
GatherWakes(G) ==
    \/ \E o \in Objs : G.ss[o] = "raised"
    \/ \A o \in Objs : G.ss[o] # "running"

RECURSIVE SplitFirst(_)
\* maskname.split("|")[0]
SplitFirst(m) ==
    IF m = <<>> \/ Head(m) = "|" THEN <<>> ELSE <<Head(m)>> \o SplitFirst(Tail(m))

LastToken(m) == m[Len(m)]
Primary(m) == IF SplitFirst(m) = <<>> THEN "" ELSE SplitFirst(m)[1]

\* "self._exclude_filter and self._exclude_filter(event.pathname)"
ExcludesNothing(em, path) == FALSE
Excluded(em, path) == em.exclude # {} /\ path \in em.exclude

RECURSIVE SchedulerListProcessEvent(_)
\* _SchedulerList.process_event: one task per scheduler of the list, in its order.
SchedulerListProcessEvent(l) ==
    IF l = <<>> THEN <<>> ELSE <<Head(l)>> \o SchedulerListProcessEvent(Tail(l))

\* EventMap.process_default: the tasks it creates.
ProcessDefault(em, ev) ==
    IF Primary(ev.maskname) \notin DOMAIN em.map THEN <<>>
    ELSE IF Excluded(em, ev.pathname) THEN <<>>
    ELSE SchedulerListProcessEvent(em.map[Primary(ev.maskname)])

\* DaemonInstance.reload: the statements of its else branch, in their order.
ReloadOpsReplaceFirst == <<"replace", "pause", "start", "shutdown_task">>
ReloadOps == <<"pause", "start", "shutdown_task", "replace">>

\* One statement of DaemonInstance.reload; old is old_instance, new is instance.
ReloadOp(d, op, old, new) ==
    CASE op = "pause" ->
             [d EXCEPT !.gens[old] = PyinotifydPause(@),
                       !.log = Append(@, <<"pause", old>>)]
      [] op = "start" ->
             [d EXCEPT !.gens[new] = PyinotifydStart(@),
                       !.log = Append(@, <<"start", new>>)]
      [] op = "shutdown_task" ->
             [d EXCEPT !.gens[old].drain = "new",
                       !.log = Append(@, <<"shutdown_task", old>>)]
      [] op = "replace" ->
             [d EXCEPT !.cur = new,
                       !.log = Append(@, <<"replace", new>>)]

RECURSIVE ApplyOps(_, _, _, _)
ApplyOps(d, ops, old, new) ==
    IF ops = <<>> THEN d
    ELSE ApplyOps(ReloadOp(d, Head(ops), old, new), Tail(ops), old, new)

\* DaemonInstance.reload: the else branch of the try statement is taken when
\* from_cfg_file raised nothing.
ReloadProceedsAlways(b) == TRUE
ReloadProceeds(b) == b.ok

\* The state main() leaves: the instance built from the configuration file is
\* started, the loop runs.
DInit ==
    /\ \E file \in CfgFiles :
          /\ FromCfgFile(file).ok
          /\ gens = [g \in Gens |->
                        IF g = 1 THEN PyinotifydStart(NewGen(FromCfgFile(file).watches))
                        ELSE NewGen(<<>>)]
    /\ ngen = 1
    /\ cur = 1
    /\ dflag = FALSE
    /\ sigs = <<>>
    /\ nsig = 0
    /\ term = [pos |-> "none", g |-> 0]
    /\ dlog = <<>>
    /\ last = NoDispatch
    /\ built = NoBuild
    /\ halted = FALSE
    /\ SchedIdle
    /\ shell = NoShell
    /\ fm = NoFm

\* "if self._shutdown:" at the head of DaemonInstance.shutdown and reload.
InProgressNever(f) == FALSE
InProgress(f) == f

\* A signal handler creates the task of DaemonInstance.reload or shutdown.
Signal(kind) ==
    /\ ~halted
    /\ nsig < MaxSignals
    /\ sigs' = Append(sigs, kind)
    /\ nsig' = nsig + 1
    /\ UNCHANGED <<svars, gens, ngen, cur, dflag, term, dlog, last, built, halted>>

\* DaemonInstance.reload (it has no await).
DReload(file) ==
    /\ ~halted
    /\ sigs # <<>> /\ Head(sigs) = "hup"
    /\ sigs' = Tail(sigs)
    /\ IF InProgress(dflag)
       THEN UNCHANGED <<gens, ngen, cur, dlog, built>>
       ELSE LET b == FromCfgFile(file)
                new == ngen + 1
                d == ApplyOps([gens |-> [gens EXCEPT ![new] = NewGen(b.watches)],
                               cur |-> cur, log |-> dlog],
                              ReloadOps, cur, new)
            IN /\ built' = [n |-> built.n + 1, ok |-> b.ok, default |-> UsesDefault(file)]
               /\ IF ReloadProceeds(b)
                  THEN /\ gens' = d.gens
                       /\ cur' = d.cur
                       /\ dlog' = d.log
                       /\ ngen' = new
                  ELSE UNCHANGED <<gens, ngen, cur, dlog>>
    /\ UNCHANGED <<svars, dflag, nsig, term, last, halted>>

\* The task of the old instance's Pyinotifyd.shutdown runs up to the gather.
DrainStart(g) ==
    /\ ~halted
    /\ gens[g].drain = "new"
    /\ \E r \in StopResults : gens' = [gens EXCEPT ![g] = PyinotifydShutdownStart(@, r)]
    /\ UNCHANGED <<svars, ngen, cur, dflag, sigs, nsig, term, dlog, last, built, halted>>

\* The shutdown coroutine of a scheduler ends: it returns, or it raises (a
\* TaskScheduler whose tasks hold a None handle).
SchedShutdownEnds(g, o, r) ==
    /\ ~halted
    /\ gens[g].ss[o] = "running"
    /\ r = "raised" => ~IsCancelAdapter(o)
    /\ gens' = [gens EXCEPT ![g].ss[o] = r]
    /\ UNCHANGED <<svars, ngen, cur, dflag, sigs, nsig, term, dlog, last, built, halted>>

\* Pyinotifyd.shutdown after the gather: an exception propagates, otherwise the
\* watches are stopped.
DrainWake(g) ==
    /\ ~halted
    /\ gens[g].drain = "gather"
    /\ GatherWakes(gens[g])
    /\ IF \E o \in Objs : gens[g].ss[o] = "raised"
       THEN gens' = [gens EXCEPT ![g].drain = "error"]
       ELSE \E r \in StopResults : gens' = [gens EXCEPT ![g] = StopWatchesEnds(@, r)]
    /\ UNCHANGED <<svars, ngen, cur, dflag, sigs, nsig, term, dlog, last, built, halted>>

\* DaemonInstance.shutdown up to "await self._instance.shutdown()".
DTermStart ==
    /\ ~halted
    /\ sigs # <<>> /\ Head(sigs) = "term"
    /\ sigs' = Tail(sigs)
    /\ IF InProgress(dflag)
       THEN UNCHANGED <<gens, dflag, term>>
       ELSE /\ dflag' = TRUE
            /\ term' = [pos |-> "await", g |-> cur]
            /\ \E r \in StopResults :
                   gens' = [gens EXCEPT ![cur] = PyinotifydShutdownStart(@, r)]
    /\ UNCHANGED <<svars, ngen, cur, nsig, dlog, last, built, halted>>

\* DaemonInstance.shutdown, "except Exception as e": the exceptions that leave
\* "await self._instance.shutdown()" and are caught and logged.
ShutdownCatchesNone(d) == FALSE
ShutdownCatches(d) == d \in {"error", "stoperror"}

\* DaemonInstance.shutdown after the instance's shutdown: the other tasks are
\* cancelled (not after an exception) and the loop is stopped; an exception that
\* is not caught ends the coroutine before the loop is stopped.
DTermFinish ==
    /\ ~halted
    /\ term.pos = "await"
    /\ gens[term.g].drain \in {"done", "error", "stoperror"}
    /\ LET d == gens[term.g].drain
       IN IF d # "done" /\ ~ShutdownCatches(d)
          THEN /\ term' = [term EXCEPT !.pos = "raised"]
               /\ UNCHANGED <<gens, sigs, dflag, halted>>
          ELSE /\ IF d # "done"
                  THEN UNCHANGED <<gens, sigs>>
                  ELSE /\ gens' = [g \in Gens |->
                                     IF gens[g].drain \in {"new", "gather"}
                                     THEN [gens[g] EXCEPT
                                              !.drain = "cancelled",
                                              !.ss = [o \in Objs |->
                                                         IF @[o] = "running"
                                                         THEN "cancelled" ELSE @[o]]]
                                     ELSE gens[g]]
                       /\ sigs' = <<>>
               /\ term' = [term EXCEPT !.pos = "done"]
               /\ dflag' = FALSE
               /\ halted' = TRUE
    /\ UNCHANGED <<svars, ngen, cur, nsig, dlog, last, built>>

\* A started watch delivers an event to its EventMap.
DEvent(g, i, ev) ==
    /\ ~halted
    /\ g <= ngen
    /\ i \in DOMAIN gens[g].watches
    /\ gens[g].wstart[i] > 0 /\ gens[g].wstop[i] = 0
    /\ LET ts == ProcessDefault(gens[g].watches[i], ev)
       IN last' = [g |-> g, w |-> i, ev |-> ev, tasks |-> ts]
    /\ UNCHANGED <<svars, gens, ngen, cur, dflag, sigs, nsig, term, dlog, built, halted>>

DNext ==
    \/ \E kind \in {"hup", "term"} : Signal(kind)
    \/ \E file \in CfgFiles : DReload(file)
    \/ \E g \in Gens : DrainStart(g)
    \/ \E g \in Gens, o \in Objs, r \in {"resolved", "raised"} : SchedShutdownEnds(g, o, r)
    \/ \E g \in Gens : DrainWake(g)
    \/ DTermStart
    \/ DTermFinish

DSpec == DInit /\ [][DNext]_vars

(***************************************************************************)
(* The configuration file and the dispatch of events on their own: main()  *)
(* builds the instance from any configuration file, the started watches    *)
(* deliver events.                                                         *)
(***************************************************************************)

\* The Watch(...) calls a configuration file may hold, and the files.
WatchArgs == {WatchArgs1, WatchArgs2, WatchArgs3, WatchArgs4}
MCfgFiles == [syntax_ok : {TRUE}, watches : {<<>>} \cup {<<x>> : x \in WatchArgs}
                                            \cup {<<x, y>> : x, y \in WatchArgs}]

MInit ==
    /\ DaemonIdle
    /\ SchedIdle
    /\ shell = NoShell
    /\ fm = NoFm

\* main(): Pyinotifyd.from_cfg_file, then DaemonInstance.start.
MBuild(file) ==
    /\ built.n = 0
    /\ LET b == FromCfgFile(file)
       IN /\ built' = [n |-> 1, ok |-> b.ok, default |-> UsesDefault(file)]
          /\ gens' = IF b.ok THEN [gens EXCEPT ![1] = PyinotifydStart(NewGen(b.watches))]
                     ELSE gens
    /\ UNCHANGED <<svars, ngen, cur, dflag, sigs, nsig, term, dlog, last, halted>>

MNext ==
    \/ \E file \in MCfgFiles : MBuild(file)
    \/ \E g \in Gens, i \in WatchIdx, ev \in DEvents : DEvent(g, i, ev)

MSpec == MInit /\ [][MNext]_vars

(***************************************************************************)
(* ShellScheduler._shell_job: the command it executes.  Strings are         *)
(* sequences of tokens; a placeholder of the template is one token.         *)
(***************************************************************************)

MaxTemplate == 3

Placeholders == {"{maskname}", "{pathname}", "{src_pathname}"}

\* The command templates (ShellScheduler cmd): up to MaxTemplate tokens.
Templates == UNION {[1..n -> {"run"} \cup Placeholders] : n \in 1..MaxTemplate}

\* The pathnames of the events: plain, with a blank, with a quote, and files
\* whose names are the text of a placeholder.
ShPaths == {<<"f">>, <<"f", " ", "g">>, <<"it", "'", "s">>,
            <<"{src_pathname}">>, <<"{pathname}">>}

\* The events a job gets; src_pathname is present on some (a sequence of one
\* pathname) and absent on the others (the empty sequence).
ShEvents == [maskname : Masks, pathname : ShPaths,
             src_pathname : {<<>>} \cup {<<p>> : p \in ShPaths}]

\* The characters shlex.quote leaves alone.
SafeTokens == {"f", "g", "it", "s", "run", "IN_CLOSE_WRITE", "IN_DELETE", "IN_CREATE",
               "IN_ISDIR"}

RECURSIVE EscapeQuotes(_)
\* s.replace("'", "'\"'\"'")
EscapeQuotes(s) ==
    IF s = <<>> THEN <<>>
    ELSE (IF Head(s) = "'" THEN <<"'", "\"", "'", "\"", "'">> ELSE <<Head(s)>>)
         \o EscapeQuotes(Tail(s))

\* shlex.quote
ShellQuote(s) ==
    IF s = <<>> THEN <<"'", "'">>
    ELSE IF \A i \in 1..Len(s) : s[i] \in SafeTokens THEN s
    ELSE <<"'">> \o EscapeQuotes(s) \o <<"'">>

RECURSIVE StrReplace(_, _, _)
\* str.replace(old, new) for a one-token old
StrReplace(s, old, new) ==
    IF s = <<>> THEN <<>>
    ELSE (IF Head(s) = old THEN new ELSE <<Head(s)>>) \o StrReplace(Tail(s), old, new)

\* _shell_job: the values put into the template.
ShellValues(ev) ==
    [maskname |-> ShellQuote(SplitFirst(ev.maskname)),
     pathname |-> ShellQuote(ev.pathname),
     src_pathname |-> ShellQuote(IF ev.src_pathname = <<>> THEN <<>>
                                 ELSE ev.src_pathname[1])]

\* _shell_job: the command, three replace calls one after the other.
ShellCommand(cmd, ev) ==
    StrReplace(StrReplace(StrReplace(cmd, "{maskname}", ShellValues(ev).maskname),
                          "{pathname}", ShellValues(ev).pathname),
               "{src_pathname}", ShellValues(ev).src_pathname)

\* A ShellScheduler constructed with one of the templates; no job has run.
ShInit ==
    /\ DaemonIdle
    /\ SchedIdle
    /\ shell \in {[cmd |-> c, ev |-> <<>>, out |-> <<>>] : c \in Templates}
    /\ fm = NoFm

\* _shell_job(event, task_id) builds and executes the command.
ShellJob(ev) ==
    /\ shell' = [shell EXCEPT !.ev = <<ev>>, !.out = ShellCommand(shell.cmd, ev)]
    /\ UNCHANGED <<delay, singlejob, files, dirs, pause, tasks, tstate, handle, events,
                   nev, act, sshut, dshut, watching, ready, ntodo, phase, fm, dvars>>

ShNext == \E ev \in ShEvents : ShellJob(ev)

ShSpec == ShInit /\ [][ShNext]_vars

(***************************************************************************)
(* FileManagerScheduler: rule lookup and _manager_job.  A path is the       *)
(* sequence of its components, an absolute path begins with "/", the empty  *)
(* sequence is the empty string.  A file system is a function from the      *)
(* paths that exist to "file" or "dir".                                     *)
(***************************************************************************)

SrcFile == <<"/", "s">>
SrcDir == <<"/", "sd">>
DstDeep == <<"/", "e", "n", "t">>
DstPlain == <<"t">>

\* os.path.dirname
Dirname(p) == IF p = <<>> \/ p = <<"/">> THEN p ELSE SubSeq(p, 1, Len(p) - 1)

\* os.path.basename
Basename(p) == p[Len(p)]

Kind(fs, p) == IF p \in DOMAIN fs THEN fs[p] ELSE "none"

\* os.path.isdir, os.path.exists
IsDir(fs, p) == Kind(fs, p) = "dir"
Exists(fs, p) == Kind(fs, p) # "none"

IsPrefix(a, b) == Len(a) <= Len(b) /\ SubSeq(b, 1, Len(a)) = a

\* The path and everything below it.
Under(fs, p) == {q \in DOMAIN fs : IsPrefix(p, q)}

\* The path and the directories above it.
Ancestors(p) == {SubSeq(p, 1, n) : n \in 1..Len(p)}

\* The directory a new entry is made in exists (a name without a directory
\* component is made in the working directory).
ParentIsDir(fs, p) == Dirname(p) = <<>> \/ IsDir(fs, Dirname(p))

Without(fs, gone) == [q \in DOMAIN fs \ gone |-> fs[q]]

\* The tree at src, as it is at dst after a copy or a rename.
TreeAt(fs, src, dst) ==
    [q \in {dst \o SubSeq(r, Len(src) + 1, Len(r)) : r \in Under(fs, src)} |->
        fs[src \o SubSeq(q, Len(dst) + 1, Len(q))]]

\* os.makedirs(d): d must not exist and no directory above it may be a file.
CanMakedirs(fs, d) ==
    /\ d # <<>>
    /\ ~Exists(fs, d)
    /\ \A a \in Ancestors(d) : Kind(fs, a) # "file"
Makedirs(fs, d) == [a \in {x \in Ancestors(d) : ~Exists(fs, x)} |-> "dir"] @@ fs

\* shutil.copy2(path, dst) of a file: into dst when dst is a directory.
Copy2Target(fs, path, dst) == IF IsDir(fs, dst) THEN dst \o <<Basename(path)>> ELSE dst
CanCopy2(fs, path, dst) ==
    /\ Kind(fs, path) = "file"
    /\ ParentIsDir(fs, Copy2Target(fs, path, dst))
    /\ ~IsDir(fs, Copy2Target(fs, path, dst))
Copy2(fs, path, dst) == (Copy2Target(fs, path, dst) :> "file") @@ fs

\* shutil.copytree(path, dst): makes dst with os.makedirs, the directories above
\* it included, then copies the entries.
CanCopytree(fs, path, dst) == CanMakedirs(fs, dst)
Copytree(fs, path, dst) == TreeAt(fs, path, dst) @@ Makedirs(fs, dst)

\* os.rename(path, dst)
CanRename(fs, path, dst) ==
    /\ Exists(fs, path)
    /\ ParentIsDir(fs, dst)
    /\ ~IsPrefix(path, dst) \/ path = dst
    /\ Kind(fs, path) = "file" => Kind(fs, dst) # "dir"
    /\ Kind(fs, path) = "dir" => /\ Kind(fs, dst) # "file"
                                 /\ Under(fs, dst) \subseteq {dst}
Rename(fs, path, dst) ==
    IF path = dst THEN fs
    ELSE TreeAt(fs, path, dst) @@ Without(fs, Under(fs, path) \cup {dst})

\* shutil.rmtree(path), os.remove(path)
Rmtree(fs, path) == Without(fs, Under(fs, path))
Remove(fs, path) == Without(fs, {path})

\* The rules: src_re is the set of pathnames it matches, dst the result of
\* src_re.sub(dst_re, pathname) for them; dirmode, filemode and chown tell
\* whether the rule sets them (not None).
NoFix == [dirmode |-> FALSE, filemode |-> FALSE, chown |-> FALSE]
Fixes == {NoFix, [dirmode |-> TRUE, filemode |-> FALSE, chown |-> TRUE]}
SrcSets == {{SrcFile}, {SrcDir}, {SrcFile, SrcDir}}
Dsts == {DstDeep, DstPlain, <<>>}

DeleteRules ==
    [action : {"delete"}, src_re : SrcSets, dst : {<<>>}, auto_create : {FALSE},
     overwrite : {FALSE}, fix : {NoFix}, rec : BOOLEAN]
CopyMoveRules ==
    [action : {"copy", "move"}, src_re : SrcSets, dst : Dsts, auto_create : BOOLEAN,
     overwrite : BOOLEAN, fix : Fixes, rec : {FALSE}]
FmRules == DeleteRules \cup CopyMoveRules

\* A second rule of a list: it deletes the file.
OtherRule == [action |-> "delete", src_re |-> {SrcFile}, dst |-> <<>>,
              auto_create |-> FALSE, overwrite |-> FALSE, fix |-> NoFix, rec |-> TRUE]

RuleLists == {<<r>> : r \in FmRules} \cup {<<r, OtherRule>> : r \in FmRules}
                 \cup {<<OtherRule, r>> : r \in FmRules}

\* The file systems a scheduler starts with: the source file, the source
\* directory with one file, and some of the directories and files of the
\* destinations.
BaseFs == (<<"/">> :> "dir") @@ (SrcFile :> "file") @@ (SrcDir :> "dir")
              @@ (SrcDir \o <<"c">> :> "file")
DeepParts == {<<>>,
              <<"/", "e">> :> "dir",
              (<<"/", "e">> :> "dir") @@ (<<"/", "e", "n">> :> "dir"),
              (<<"/", "e">> :> "dir") @@ (<<"/", "e", "n">> :> "dir") @@ (DstDeep :> "file")}
PlainParts == {<<>>, DstPlain :> "file"}
Layouts == {BaseFs @@ d @@ t : d \in DeepParts, t \in PlainParts}

\* The events: for the source file and for the source directory.
FmEvents == {[pathname |-> SrcFile, dir |-> FALSE], [pathname |-> SrcDir, dir |-> TRUE]}

RECURSIVE FirstMatch(_, _, _)
\* _get_rule_by_event: the index of the first rule whose src_re matches, 0 for
\* None.
FirstMatch(rules, ev, i) ==
    IF i > Len(rules) THEN 0
    ELSE IF ev.pathname \in rules[i].src_re THEN i
    ELSE FirstMatch(rules, ev, i + 1)
LastMatch(rules, ev) ==
    IF \E i \in 1..Len(rules) : ev.pathname \in rules[i].src_re
    THEN CHOOSE i \in 1..Len(rules) :
             /\ ev.pathname \in rules[i].src_re
             /\ \A j \in (i + 1)..Len(rules) : ev.pathname \notin rules[j].src_re
    ELSE 0
GetRuleByEvent(rules, ev) == FirstMatch(rules, ev, 1)

RECURSIVE FirstSubdir(_, _)
\* The while loop that looks for the first missing directory: <<d>> when it
\* ends with first_subdir = d, <<>> when it never ends (first_subdir is its
\* own parent and is not a directory).
FirstSubdir(fs, f) ==
    IF IsDir(fs, f) THEN <<f>>
    ELSE IF IsDir(fs, Dirname(f)) THEN <<f>>
    ELSE IF Dirname(f) = f THEN <<>>
    ELSE FirstSubdir(fs, Dirname(f))

\* _set_mode_and_owner(path, rule): the paths it calls chmod or chown on.
SetModeAndOwner(fs, p, rule) ==
    LET onDirs == rule.fix.dirmode \/ rule.fix.chown
        onFiles == rule.fix.filemode \/ rule.fix.chown
    IN IF IsDir(fs, p)
       THEN {q \in Under(fs, p) : (fs[q] = "dir" /\ onDirs) \/ (fs[q] = "file" /\ onFiles)}
       ELSE IF onFiles THEN {p} ELSE {}

\* The places where the environment makes a call of the job fail.
FailPoints == {"none", "sub", "makedirs", "dirfix", "op", "dstfix"}

\* "except RuntimeError" and "except Exception" at the end of _manager_job.
AbsorbsRuntimeOnly(exc) == exc = "RuntimeError"
Absorbs(exc) == exc \in {"RuntimeError", "Exception"}

\* The job ends: it returned (after logging the exception it caught), the
\* exception left it, or it never ends.
JobEnd(fs, ri, exc, err, created, dirfixed, dstfixed) ==
    [fs |-> fs, rule |-> ri, err |-> err, created |-> created,
     dirfixed |-> dirfixed, dstfixed |-> dstfixed,
     outcome |-> IF exc = "hang" THEN "hang"
                 ELSE IF exc = "none" \/ Absorbs(exc) THEN "returned"
                 ELSE "raised",
     log |-> IF exc = "RuntimeError" /\ Absorbs(exc) THEN "error"
             ELSE IF exc = "Exception" /\ Absorbs(exc) THEN "exception"
             ELSE "none"]

\* "if os.path.exists(dst) and not rule.overwrite"
DstBlockedNever(fs, rule, dst) == FALSE
DstBlocked(fs, rule, dst) == Exists(fs, dst) /\ ~rule.overwrite

\* _manager_job, copy or move: the copy or rename and what follows it.
CopyMoveOp(fs, ri, rule, path, dst, fail, created, dirfixed) ==
    LET isTree == rule.action = "copy" /\ IsDir(fs, path)
        can == /\ fail # "op"
               /\ IF rule.action = "move" THEN CanRename(fs, path, dst)
                  ELSE IF isTree THEN CanCopytree(fs, path, dst)
                  ELSE CanCopy2(fs, path, dst)
        fs2 == IF rule.action = "move" THEN Rename(fs, path, dst)
               ELSE IF isTree THEN Copytree(fs, path, dst)
               ELSE Copy2(fs, path, dst)
    IN IF ~can
       THEN JobEnd(fs, ri, "RuntimeError", "op", created, dirfixed, {})
       ELSE IF fail = "dstfix" /\ SetModeAndOwner(fs2, dst, rule) # {}
       THEN JobEnd(fs2, ri, "RuntimeError", "dstfix", created, dirfixed, {})
       ELSE JobEnd(fs2, ri, "none", "none", created, dirfixed,
                   SetModeAndOwner(fs2, dst, rule))

\* _manager_job, copy or move.
CopyMoveJob(fs, ri, rule, path, fail) ==
    LET dst == rule.dst
        dst_dir == Dirname(dst)
        needs == ~IsDir(fs, dst_dir) /\ rule.auto_create
        first == FirstSubdir(fs, dst_dir)
        fs1 == Makedirs(fs, dst_dir)
        created == DOMAIN fs1 \ DOMAIN fs
    IN IF fail = "sub"
       THEN JobEnd(fs, ri, "Exception", "sub", {}, {}, {})
       ELSE IF dst = <<>>
       THEN JobEnd(fs, ri, "RuntimeError", "empty", {}, {}, {})
       ELSE IF DstBlocked(fs, rule, dst)
       THEN JobEnd(fs, ri, "RuntimeError", "exists", {}, {}, {})
       ELSE IF ~needs
       THEN CopyMoveOp(fs, ri, rule, path, dst, fail, {}, {})
       ELSE IF first = <<>>
       THEN JobEnd(fs, ri, "hang", "none", {}, {}, {})
       ELSE IF fail = "makedirs" \/ ~CanMakedirs(fs, dst_dir)
       THEN JobEnd(fs, ri, "RuntimeError", "makedirs", {}, {}, {})
       ELSE IF fail = "dirfix" /\ SetModeAndOwner(fs1, first[1], rule) # {}
       THEN JobEnd(fs1, ri, "RuntimeError", "dirfix", created, {}, {})
       ELSE CopyMoveOp(fs1, ri, rule, path, dst, fail, created,
                       SetModeAndOwner(fs1, first[1], rule))

\* _manager_job, delete: shutil has no rmdir, the call raises AttributeError.
DeleteJob(fs, ri, rule, path, fail) ==
    IF IsDir(fs, path)
    THEN IF ~rule.rec
         THEN JobEnd(fs, ri, "RuntimeError", "rmdir", {}, {}, {})
         ELSE IF fail = "op"
         THEN JobEnd(fs, ri, "RuntimeError", "op", {}, {}, {})
         ELSE JobEnd(Rmtree(fs, path), ri, "none", "none", {}, {}, {})
    ELSE IF fail = "op" \/ Kind(fs, path) # "file"
    THEN JobEnd(fs, ri, "RuntimeError", "op", {}, {}, {})
    ELSE JobEnd(Remove(fs, path), ri, "none", "none", {}, {}, {})

\* _manager_job
ManagerJob(rules, fs, ev, fail) ==
    LET ri == GetRuleByEvent(rules, ev)
    IN IF ri = 0 THEN JobEnd(fs, 0, "none", "none", {}, {}, {})
       ELSE IF rules[ri].action = "delete"
       THEN DeleteJob(fs, ri, rules[ri], ev.pathname, fail)
       ELSE CopyMoveJob(fs, ri, rules[ri], ev.pathname, fail)

\* A FileManagerScheduler constructed with a list of rules; files and dirs are
\* passed on to TaskScheduler.
FInit ==
    /\ DaemonIdle
    /\ LoopIdle
    /\ delay = 0
    /\ singlejob = FALSE
    /\ files = TRUE
    /\ dirs \in BOOLEAN
    /\ shell = NoShell
    /\ fm \in {[rules |-> l, fs |-> f, ev |-> <<>>, delegated |-> FALSE, job |-> <<>>] :
                  l \in RuleLists, f \in Layouts}

\* FileManagerScheduler.process_event: the event is handed to
\* TaskScheduler.process_event, or dropped.
FmProcessEvent(ev) ==
    /\ fm.job = <<>>
    /\ ~fm.delegated
    /\ fm' = [fm EXCEPT !.ev = <<ev>>,
                        !.delegated = Accepted(ev) /\ GetRuleByEvent(fm.rules, ev) # 0]
    /\ UNCHANGED <<delay, singlejob, files, dirs, pause, tasks, tstate, handle, events,
                   nev, act, sshut, dshut, watching, ready, ntodo, phase, shell, dvars>>

\* The job of the scheduled event runs.
FmJob(fail) ==
    /\ fm.delegated
    /\ fm.job = <<>>
    /\ LET r == ManagerJob(fm.rules, fm.fs, fm.ev[1], fail)
       IN fm' = [fm EXCEPT !.fs = r.fs,
                           !.job = <<[r EXCEPT !.fs = fm.fs]>>]
    /\ UNCHANGED <<delay, singlejob, files, dirs, pause, tasks, tstate, handle, events,
                   nev, act, sshut, dshut, watching, ready, ntodo, phase, shell, dvars>>

FNext ==
    \/ \E ev \in FmEvents : FmProcessEvent(ev)
    \/ \E fail \in FailPoints : FmJob(fail)

FSpec == FInit /\ [][FNext]_vars

(***************************************************************************)
(* Properties.                                                             *)
(***************************************************************************)

KeyOf(a) == taskindex(events[a])

\* The activation has returned (or raised).
Returned(a) == act[a].pos \in {"filtered", "skip", "error", "paused", "superseded",
                               "finished", "jobcancelled", "raised", "keyerror",
                               "absent", "cancelled"}

\* The process_event activations that entered _run_job with TaskState t.
Users(t) == {a \in Evs : /\ events[a].flag = "sched"
                         /\ act[a].ts = t
                         /\ act[a].pos \in {"sleep", "job", "superseded", "finished",
                                            "jobcancelled", "raised", "keyerror"}}

\* The activation has started the job (created the job task).
JobStarted(a) == handle[JobH(a)] # "none"

\* A cancel event has cancelled TaskState t.
CancelHit(t) == \E c \in Evs : events[c].flag = "cancel" /\ act[c].pos = "cancelled"
                               /\ act[c].ts = t

\* The step runs the callback at the head of the ready queue, of kind k (the other
\* steps append to the queue).
Runs(k) == /\ Running(k)
           /\ ~(Len(ready') = Len(ready) + 1 /\ SubSeq(ready', 1, Len(ready)) = ready)

LiveTimer(h) == ~IsJob(h) /\ handle[h] \in {"new", "wait", "due", "fired"}
LiveJob(h) == IsJob(h) /\ handle[h] \in {"new", "wait", "due", "fired", "cancelreq"}

\* C1: with delay > 0, the accepted events coalesced into one TaskState start the
\* job at most once at any time, and exactly once when all their process_event
\* calls have returned on a scheduler that was not paused or shut down and no
\* cancel event hit the TaskState.
C1_OneExecution ==
    \A t \in Evs :
        (delay > 0 /\ Users(t) # {}) =>
            /\ Cardinality({a \in Users(t) : JobStarted(a)}) <= 1
            /\ (~pause /\ ~CancelHit(t) /\ \A a \in Users(t) : Returned(a))
                   => Cardinality({a \in Users(t) : JobStarted(a)}) = 1

\* Two events were coalesced, both calls have returned, and the job ran once.
C1_Witness ==
    \E t \in Evs :
        /\ delay > 0 /\ ~pause /\ ~CancelHit(t)
        /\ Cardinality(Users(t)) >= 2
        /\ \A a \in Users(t) : Returned(a)
        /\ Cardinality({a \in Users(t) : JobStarted(a)}) = 1

\* C6: the job is started by the activation of the most recently arrived event
\* among those coalesced into the TaskState (the job task of activation a is the
\* call self._job(event a, id)); an activation that a newer one superseded never
\* starts the job.
C6_LatestEvent ==
    \A a \in Evs : JobStarted(a) => \A b \in Users(act[a].ts) : b <= a

\* An older activation was superseded and the newer one has started the job.
C6_Witness ==
    \E a, b \in Evs :
        /\ b < a
        /\ act[b].ts = act[a].ts
        /\ act[b].pos = "superseded"
        /\ JobStarted(a)

\* C7: for every key at most one handle is live at any time: one pending debounce
\* timer or one running job (a timer on which cancel() was called no longer counts
\* as pending; a job counts as running until its task has ended).
C7_OneLiveHandle ==
    \A k \in Keys :
        Cardinality({h \in Handles : KeyOf(Owner(h)) = k /\ (LiveTimer(h) \/ LiveJob(h))}) <= 1

\* A re-scheduled key: the old timer is cancelled but its task has not ended yet,
\* the new timer is pending.
C7_Witness ==
    \E h1, h2 \in Handles :
        /\ h1 # h2
        /\ KeyOf(Owner(h1)) = KeyOf(Owner(h2))
        /\ ~IsJob(h1) /\ handle[h1] = "cancelreq"
        /\ LiveTimer(h2)

\* C4: while the entry of a key is not cancelable (its job runs), the job's task
\* is cancelled only by TaskScheduler.shutdown after its timeout fired, and the
\* entry is removed only by the epilogue of the _run_job call that awaits the
\* ended job; no schedule event or cancel event for the key does either.
C4_Step ==
    \A k \in Keys :
        (tasks[k] # 0 /\ ~tstate[tasks[k]].cancelable) =>
            LET t == tasks[k]
                h == tstate[t].task
            IN /\ tstate'[t] = tstate[t]
               /\ (handle'[h] = "cancelreq" /\ handle[h] # "cancelreq")
                      => (Runs("sshut_wake") /\ sshut.tmo = "fired")
               /\ handle'[h] = "cancelled" => handle[h] \in {"cancelreq", "cancelled"}
               /\ tasks'[k] # t
                      => /\ Runs("pe_wake")
                         /\ Head(ready).id = Owner(h)
                         /\ Finished(handle[h])

JobEnded(a) == act[a].pos \in {"finished", "raised", "jobcancelled"}

\* C8: once _run_job has handled the end of the job (return, exception or
\* cancellation), the key's entry is no longer the TaskState of that job, and no
\* later event schedules anything on that TaskState: a later accepted event gets a
\* fresh TaskState.
C8_EntryRemoved ==
    \A a \in Evs :
        JobEnded(a) =>
            /\ tasks[KeyOf(a)] # act[a].ts
            /\ \A b \in Evs : (b > a /\ act[b].ts = act[a].ts) => act[b].pos = "skip"

\* A job has ended and a later event for the key has a fresh TaskState with a new
\* timer or job.
C8_Witness ==
    \E a, b \in Evs :
        /\ JobEnded(a)
        /\ b > a /\ KeyOf(b) = KeyOf(a)
        /\ act[b].ts = b
        /\ tasks[KeyOf(b)] = b
        /\ act[b].pos \in {"sleep", "job"}

\* C9 (state part): after a cancel event cancelled the cancelable entry of its key,
\* the timers of the TaskState are cancelled, the entry is no longer that
\* TaskState, and none of its activations ever starts the job.
C9_Cancelled ==
    \A c \in Evs :
        (events[c].flag = "cancel" /\ act[c].pos = "cancelled") =>
            LET t == act[c].ts
            IN /\ tasks[KeyOf(c)] # t
               /\ Users(t) # {}
               /\ \A a \in Users(t) :
                      /\ handle[SleepH(a)] \in {"cancelreq", "cancelled"}
                      /\ ~JobStarted(a)
                      /\ act[a].pos \in {"sleep", "superseded"}

\* C9 (step part): a cancel event whose key has no entry changes nothing.
C9_AbsentStep ==
    \A c \in Evs :
        (/\ Runs("pe_start") /\ Head(ready).id = c
         /\ events[c].flag = "cancel"
         /\ tasks[KeyOf(c)] = 0)
            => UNCHANGED <<tasks, tstate, handle, pause, sshut>>

\* C9 (step part): a cancel event whose key has a cancelable entry with a pending
\* timer cancels the timer and removes the entry.
C9_CancelStep ==
    \A c \in Evs :
        (/\ Runs("pe_start") /\ Head(ready).id = c
         /\ events[c].flag = "cancel"
         /\ tasks[KeyOf(c)] # 0
         /\ tstate[tasks[KeyOf(c)]].cancelable
         /\ tstate[tasks[KeyOf(c)]].task # 0
         /\ LiveTimer(tstate[tasks[KeyOf(c)]].task))
            => /\ handle'[tstate[tasks[KeyOf(c)]].task] = "cancelreq"
               /\ tasks'[KeyOf(c)] = 0
               /\ act'[c] = [pos |-> "cancelled", ts |-> tasks[KeyOf(c)]]

\* C9: a cancel event on a cancelable entry cancels the timer and removes the
\* entry, the job never runs; without an entry it changes nothing.
C9_CancelEvent == [][C9_AbsentStep /\ C9_CancelStep /\ C9_Cancelled']_vars

\* A cancel event has cancelled a timer whose activation has returned without
\* starting the job.
C9_Witness ==
    \E c \in Evs :
        /\ events[c].flag = "cancel" /\ act[c].pos = "cancelled"
        /\ \E a \in Users(act[c].ts) : act[a].pos = "superseded" /\ ~JobStarted(a)

\* A cancel event found no entry for its key.
C9_WitnessAbsent == \E c \in Evs : events[c].flag = "cancel" /\ act[c].pos = "absent"

\* C2: while the scheduler is paused no job starts (no job task is created).
C2_NoJobStartWhilePaused ==
    [][pause => \A a \in Evs : ~JobStarted(a) => ~JobStarted(a)']_vars

\* C3: when TaskScheduler.shutdown has returned, every handle it waited for has
\* finished or is cancelled, and no job is running or starts afterwards.
C3_ShutdownQuiet ==
    sshut.pos = "done" =>
        /\ \A h \in sshut.fs : handle[h] \in {"done", "raised", "cancelled", "cancelreq"}
        /\ \A h \in Handles : ~LiveJob(h)

\* C5: Pyinotifyd.shutdown resolves; a call that ended by raising never does.
C5_ShutdownResolves == dshut # "error"

\* C10: a process_event call on a paused scheduler for a key whose entry is
\* cancelable with a pending timer cancels the timer, removes the entry and
\* starts no timer and no job.
C10_Step ==
    \A a \in Evs :
        (/\ Runs("pe_start") /\ Head(ready).id = a
         /\ events[a].flag = "sched" /\ Accepted(events[a])
         /\ pause
         /\ tasks[KeyOf(a)] # 0
         /\ tstate[tasks[KeyOf(a)]].cancelable
         /\ tstate[tasks[KeyOf(a)]].task # 0
         /\ LiveTimer(tstate[tasks[KeyOf(a)]].task))
            => /\ handle'[tstate[tasks[KeyOf(a)]].task] = "cancelreq"
               /\ \A h \in Handles : handle[h] = "none" => handle'[h] = "none"
               /\ tasks'[KeyOf(a)] = 0

C10_PausedEventRemoves == [][C10_Step]_vars

\* C11: a process_event call on a paused scheduler leaves the tasks map and the
\* TaskStates as they are, creates no timer and no job, and changes a handle only
\* by cancelling a pending timer.
C11_Step ==
    \A a \in Evs :
        (/\ Runs("pe_start") /\ Head(ready).id = a
         /\ events[a].flag = "sched"
         /\ pause)
            => /\ tasks' = tasks
               /\ tstate' = tstate
               /\ \A h \in Handles :
                      \/ handle'[h] = handle[h]
                      \/ LiveTimer(h) /\ handle'[h] = "cancelreq"

C11_PausedEventOnlyCancels == [][C11_Step]_vars

\* C12: no process_event or process_cancel_event call ends by raising an
\* exception of its own (position "error": AttributeError on a TaskState whose
\* task is None).
C12_NoException == \A a \in Evs : act[a].pos # "error"

\* C13: no process_event call ends with the exception of its job (position
\* "raised": the exception of "await task_state.task" left _run_job and
\* process_event after the finally block).
C13_JobExceptionCaught == \A a \in Evs : act[a].pos # "raised"

\* C14: the call for an event that fails the files/dirs filter changes neither
\* the tasks map nor a TaskState nor a handle, for schedule and cancel events.
C14_Step ==
    \A a \in Evs :
        (/\ Runs("pe_start") /\ Head(ready).id = a
         /\ ~Accepted(events[a]))
            => UNCHANGED <<tasks, tstate, handle>>

C14_FilteredEventNoEffect == [][C14_Step]_vars

\* Scheduler object o occurs in a scheduler list of an EventMap of instance G.
Reach(G, o) ==
    \E i \in DOMAIN G.watches :
        \E f \in DOMAIN G.watches[i].map :
            \E j \in DOMAIN G.watches[i].map[f] : G.watches[i].map[f][j] = o

\* C15 (state part): every reload has paused the old instance, started the new
\* one, created the task of the old instance's shutdown and replaced the handle,
\* in this order; the handle is the newest instance.
C15_Order ==
    /\ Len(dlog) = 4 * (ngen - 1)
    /\ \A g \in 1..(ngen - 1) :
           /\ dlog[4 * g - 3] = <<"pause", g>>
           /\ dlog[4 * g - 2] = <<"start", g + 1>>
           /\ dlog[4 * g - 1] = <<"shutdown_task", g>>
           /\ dlog[4 * g] = <<"replace", g + 1>>
    /\ cur = ngen

\* C15 (step part): the reload step itself leaves the old instance's shutdown
\* as a task that has not run; a shutdown that begins acts on the newest
\* instance, whatever older instances are still draining.
C15_Step ==
    /\ ngen' # ngen =>
           /\ ngen' = ngen + 1
           /\ cur' = ngen'
           /\ gens'[ngen].drain = "new"
           /\ \A o \in Objs : gens'[ngen].sc[o] = 0
           /\ \A i \in WatchIdx : gens'[ngen].wstop[i] = 0
           /\ \A i \in DOMAIN gens'[ngen'].watches : gens'[ngen'].wstart[i] = 1
    /\ (term.pos = "none" /\ term'.pos = "await") =>
           /\ term'.g = ngen
           /\ gens[ngen].drain = "none"
           /\ gens'[ngen].drain \in {"gather", "done", "stoperror"}

\* C15: a successful reload pauses the old instance, starts the new one, creates
\* the task of the old instance's shutdown and replaces the handle, in this
\* order and without awaiting the shutdown; a later signal acts on the new
\* instance.
C15_Reload == [][C15_Step /\ C15_Order']_vars

\* The old instance is still draining and a shutdown signal is being handled on
\* the new instance.
C15_Witness ==
    /\ ngen = 2
    /\ gens[1].drain \in {"new", "gather"}
    /\ term.pos = "await" /\ term.g = 2

\* The first instance is still draining and a second reload has been handled.
C15_WitnessReload == ngen = 3 /\ gens[1].drain \in {"new", "gather"}

\* C16: a reload whose from_cfg_file call raised changes nothing: the handle,
\* the instances (pause and shutdown calls, watches) and the reload log are as
\* before; and as long as no reload succeeded and no shutdown began the first
\* instance is not paused, not shut down, and its watches are not stopped.
C16_Step ==
    /\ (built'.n # built.n /\ ~built'.ok)
           => UNCHANGED <<gens, ngen, cur, dflag, dlog, term, halted>>
    /\ (ngen' = 1 /\ term'.pos = "none")
           => /\ cur' = 1
              /\ gens'[1].drain = "none"
              /\ \A o \in Objs : gens'[1].pc[o] = 0 /\ gens'[1].sc[o] = 0
              /\ \A i \in DOMAIN gens'[1].watches :
                     gens'[1].wstart[i] = 1 /\ gens'[1].wstop[i] = 0

C16_FailedReload == [][C16_Step]_vars

\* A reload has failed; the first instance is the handle, it has watches and
\* schedulers, none is paused, no watch is stopped.
C16_Witness ==
    /\ built.n > 0 /\ ~built.ok
    /\ cur = 1 /\ ngen = 1 /\ term.pos = "none"
    /\ gens[1].watches # <<>>
    /\ \E o \in Objs : Reach(gens[1], o)
    /\ \A o \in Objs : gens[1].pc[o] = 0
    /\ \A i \in DOMAIN gens[1].watches : gens[1].wstop[i] = 0

\* C17: process_default creates one task per scheduler bound to the part of
\* maskname before the first "|", in the order of the list; none when that flag
\* is not bound or the exclude filter matches the pathname.
C17_Dispatch ==
    last.g # 0 =>
        LET em == gens[last.g].watches[last.w]
            p == last.ev.maskname[1]
        IN IF p \in DOMAIN em.map /\ last.ev.pathname \notin em.exclude
           THEN last.tasks = em.map[p]
           ELSE last.tasks = <<>>

\* An event with a composite maskname was dispatched to two schedulers.
C17_Witness ==
    /\ last.g # 0
    /\ Len(last.ev.maskname) > 1
    /\ Len(last.tasks) = 2

\* An event was not dispatched because the exclude filter matches.
C17_WitnessExcluded ==
    /\ last.g # 0
    /\ last.ev.maskname[1] \in DOMAIN gens[last.g].watches[last.w].map
    /\ last.ev.pathname \in gens[last.g].watches[last.w].exclude
    /\ last.tasks = <<>>

\* C18: building a configuration whose Watch is given a default scheduler
\* succeeds and binds every flag to it.
C18_DefaultSchedBinds ==
    (built.n > 0 /\ built.default) =>
        /\ built.ok
        /\ \E i \in DOMAIN gens[1].watches : DOMAIN gens[1].watches[i].map = Flags

\* C19: every scheduler object that occurs in the EventMaps of an instance got
\* pause() once per Pyinotifyd.pause call and shutdown(timeout) once when
\* Pyinotifyd.shutdown ran; the others got neither.
C19_OncePerScheduler ==
    \A g \in Gens : \A o \in Objs :
        /\ gens[g].pc[o] = IF Reach(gens[g], o) THEN CountIn(dlog, <<"pause", g>>) ELSE 0
        /\ gens[g].pc[o] <= 1
        /\ gens[g].sc[o] <= 1
        /\ gens[g].drain \in {"gather", "done", "error", "stoperror"}
               => gens[g].sc[o] = IF Reach(gens[g], o) THEN 1 ELSE 0
        /\ ~Reach(gens[g], o) => gens[g].sc[o] = 0

\* An instance with two watches that share a scheduler, one scheduler bound to
\* two flags, was paused and shut down.
C19_Witness ==
    \E g \in Gens :
        /\ Len(gens[g].watches) = 2
        /\ Len(ExtendWatches(gens[g].watches)) > Cardinality({o \in Objs : Reach(gens[g], o)})
        /\ gens[g].pc[1] = 1 /\ gens[g].sc[1] = 1
        /\ gens[g].pc[2] = 1 /\ gens[g].sc[2] = 1

\* C20: a watch is stopped at most once and only when the shutdown of every
\* scheduler of the instance has returned; when Pyinotifyd.shutdown has
\* returned every watch of the instance was stopped once.
C20_WatchesStopLast ==
    \A g \in Gens :
        /\ \A i \in WatchIdx :
               /\ gens[g].wstop[i] <= 1
               /\ gens[g].wstop[i] = 1
                      => \A o \in Objs : Reach(gens[g], o) => gens[g].ss[o] = "resolved"
        /\ gens[g].drain = "done"
               => \A i \in WatchIdx :
                      gens[g].wstop[i] = IF i \in DOMAIN gens[g].watches THEN 1 ELSE 0

\* The shutdown of an instance with two watches and several schedulers has
\* returned.
C20_Witness ==
    \E g \in Gens :
        /\ gens[g].drain = "done"
        /\ Len(gens[g].watches) = 2
        /\ gens[g].wstop[1] = 1 /\ gens[g].wstop[2] = 1
        /\ gens[g].ss[1] = "resolved" /\ gens[g].ss[2] = "resolved"

\* The callback about to run is process_event of the accepted schedule event a on
\* a scheduler that is not paused.
SchedulesEvent(a) ==
    /\ Runs("pe_start")
    /\ Head(ready).id = a
    /\ events[a].flag = "sched"
    /\ Accepted(events[a])
    /\ ~pause

\* C23: in single-job mode the scheduler holds at most one TaskState and at most
\* one live handle whatever the paths of the events; on a scheduler that is not
\* paused, an accepted event on any path that finds the task's timer pending is
\* attached to that TaskState, cancels the timer and starts a new one, and an
\* accepted event on any path that finds the job running is skipped and changes
\* nothing.
C23_Step ==
    singlejob =>
        /\ Cardinality({k \in Keys : tasks'[k] # 0}) <= 1
        /\ \A k \in Paths : tasks'[k] = 0
        /\ Cardinality({h \in Handles :
               handle'[h] \in {"new", "wait", "due", "fired"}
               \/ (IsJob(h) /\ handle'[h] = "cancelreq")}) <= 1
        /\ \A a \in Evs :
               (SchedulesEvent(a) /\ tasks["singlejob"] # 0) =>
                   LET t == tasks["singlejob"]
                       h == tstate[t].task
                   IN IF tstate[t].cancelable
                      THEN /\ act'[a].ts = t
                           /\ tasks'["singlejob"] = t
                           /\ LiveTimer(h) => handle'[h] \in {"cancelreq", "cancelled"}
                           /\ handle'[SleepH(a)] = "new"
                           /\ tstate'[t] = [task |-> SleepH(a), cancelable |-> TRUE]
                      ELSE /\ act'[a].pos = "skip"
                           /\ tasks' = tasks
                           /\ tstate' = tstate
                           /\ handle' = handle

C23_SingleTask == [][C23_Step]_vars

\* Single-job mode: an event on path "b" re-scheduled the task that an event on
\* path "a" had created, and started the job.
C23_Witness ==
    \E a, b \in Evs :
        /\ singlejob
        /\ events[a].path = "a"
        /\ events[b].path = "b"
        /\ act[a].pos = "superseded"
        /\ act[b].ts = act[a].ts
        /\ JobStarted(b)

\* Single-job mode: an event on path "b" was skipped because the job that an
\* event on path "a" started is running.
C23_WitnessSkip ==
    \E a, b \in Evs :
        /\ singlejob
        /\ events[a].path = "a"
        /\ events[b].path = "b"
        /\ events[b].flag = "sched"
        /\ act[b].pos = "skip"
        /\ LiveJob(JobH(a))

\* C25: an accepted event that finds the job of its key running creates neither a
\* timer nor a job, at no later time either; no key has two jobs running at once,
\* and no TaskState starts the job more than once.
C25_OngoingJobEventDiscarded ==
    /\ \A a \in Evs :
           (events[a].flag = "sched" /\ act[a].pos = "skip")
               => (handle[SleepH(a)] = "none" /\ handle[JobH(a)] = "none")
    /\ \A k \in Keys :
           Cardinality({h \in Handles : KeyOf(Owner(h)) = k /\ LiveJob(h)}) <= 1
    /\ \A t \in Evs :
           Cardinality({a \in Evs : events[a].flag = "sched" /\ act[a].ts = t
                                    /\ JobStarted(a)}) <= 1

\* An event was skipped because the job of its key ran; the job has finished and
\* its entry is removed, and the skipped event started nothing.
C25_Witness ==
    \E a, b \in Evs :
        /\ events[b].flag = "sched"
        /\ act[b].pos = "skip"
        /\ act[b].ts = act[a].ts
        /\ act[a].pos = "finished"
        /\ tasks[KeyOf(a)] = 0
        /\ handle[JobH(b)] = "none"

\* process_event or process_cancel_event of event a has run its first segment.
Processed(a) == act[a].pos \notin {"none", "notify", "new"}

\* C26: with delay > 0, the job is started by an activation only after the timer
\* that this activation created in its own process_event call has run its full
\* delay, and every later accepted event for the key that was processed on the
\* same TaskState was processed after the start (it was skipped): had it been
\* processed before, it would have replaced the timer by a new one of full delay.
C26_FullDelayBeforeStart ==
    delay > 0 =>
        \A a \in Evs :
            JobStarted(a) =>
                /\ handle[SleepH(a)] = "done"
                /\ \A b \in Evs :
                       (/\ b > a
                        /\ events[b].flag = "sched"
                        /\ Accepted(events[b])
                        /\ Processed(b)
                        /\ act[b].ts = act[a].ts)
                           => act[b].pos = "skip"

\* Two events were coalesced: the timer of the first was cancelled, the timer of
\* the second ran its delay and the second started the job.
C26_Witness ==
    \E a, b \in Evs :
        /\ delay > 0
        /\ a < b
        /\ act[b].ts = act[a].ts
        /\ handle[SleepH(a)] = "cancelled"
        /\ handle[SleepH(b)] = "done"
        /\ JobStarted(b)
        /\ ~JobStarted(a)

C28_FlagMatchesHandle ==
    \A k \in Keys :
        tasks[k] # 0 =>
            LET s == tstate[tasks[k]]
            IN /\ s.cancelable <=> (s.task # 0 /\ ~IsJob(s.task))
               /\ ~s.cancelable <=> (s.task # 0 /\ IsJob(s.task))

\* With delay = 0 a stored TaskState of a scheduler that is not paused holds the
\* job and is not cancelable.
C28_ZeroDelay ==
    (delay = 0 /\ ~pause) =>
        \A k \in Keys :
            tasks[k] # 0 => (~tstate[tasks[k]].cancelable /\ IsJob(tstate[tasks[k]].task))

\* A paused scheduler stored a TaskState for a new key: it is cancelable and has
\* no handle.
C28_NoHandle ==
    \E k \in Keys :
        /\ tasks[k] # 0
        /\ tstate[tasks[k]].cancelable
        /\ tstate[tasks[k]].task = 0

\* C29: the cancelable flag of a TaskState never changes from false to true.
C29_Step ==
    \A t \in Evs : ~tstate[t].cancelable => ~tstate'[t].cancelable

C29_CancelableOnlyFalls == [][C29_Step]_vars

\* A TaskState started its job (not cancelable); the scheduler was then paused
\* and received a further event for the key, which was skipped.
C29_Witness ==
    \E t, b \in Evs :
        /\ ~tstate[t].cancelable
        /\ Cardinality(Users(t)) >= 1
        /\ pause
        /\ events[b].flag = "sched"
        /\ act[b].pos = "skip"
        /\ act[b].ts = t

\* C30: in per-path mode the first segment of process_event or
\* process_cancel_event for an event on path A leaves the entry, the TaskState and
\* every handle of each other path B unchanged.
C30_Step ==
    \A a \in Evs :
        (~singlejob /\ Runs("pe_start") /\ Head(ready).id = a) =>
            /\ \A k \in Paths \ {events[a].path} :
                   /\ tasks'[k] = tasks[k]
                   /\ tasks[k] # 0 => tstate'[tasks[k]] = tstate[tasks[k]]
            /\ \A h \in Handles :
                   (handle[h] # "none" /\ events[Owner(h)].path # events[a].path)
                       => handle'[h] = handle[h]

C30_KeysIndependent == [][C30_Step]_vars

\* Per-path mode: the jobs of two different paths run at the same time.
C30_Witness ==
    \E a, b \in Evs :
        /\ ~singlejob
        /\ events[a].path # events[b].path
        /\ LiveJob(JobH(a))
        /\ LiveJob(JobH(b))

\* C24: process_event of a Cancel adapter takes exactly the steps of
\* process_cancel_event of its target, and pause() and shutdown() of the adapter
\* return the paused flag and the tasks map of the target as they found them.
C24_Step ==
    /\ CancelPause(SchedState) = SchedState
    /\ CancelShutdown(SchedState) = SchedState
    /\ \A a \in Evs : CancelProcessEvent(a) <=> ProcessCancelEvent(a)

C21_ErrorStillStops ==
    /\ term.pos \in {"done", "raised"} => halted
    /\ (term.pos = "await" /\ gens[term.g].drain \in {"done", "error", "stoperror"})
           => ENABLED DTermFinish

\* The drain of a scheduler raised during a signal-driven shutdown and the loop
\* was stopped.
C21_Witness ==
    /\ term.pos = "done"
    /\ gens[term.g].drain = "error"
    /\ \E o \in Objs : gens[term.g].ss[o] = "raised"
    /\ halted

\* The teardown of a notifier raised during a signal-driven shutdown, after the
\* schedulers had drained, and the loop was stopped.
C21_WitnessTeardown ==
    /\ term.pos = "done"
    /\ gens[term.g].drain = "stoperror"
    /\ \E o \in Objs : gens[term.g].ss[o] = "resolved"
    /\ \A i \in WatchIdx : gens[term.g].wstop[i] = 0
    /\ halted

RECURSIVE SubstituteAll(_, _)
\* The template in which every placeholder token is replaced by its value and
\* nothing else is touched.
SubstituteAll(cmd, vals) ==
    IF cmd = <<>> THEN <<>>
    ELSE (IF Head(cmd) \in Placeholders THEN vals[Head(cmd)] ELSE <<Head(cmd)>>)
         \o SubstituteAll(Tail(cmd), vals)

\* The values by placeholder.
ByPlaceholder(ev) ==
    [p \in Placeholders |->
        IF p = "{maskname}" THEN ShellValues(ev).maskname
        ELSE IF p = "{pathname}" THEN ShellValues(ev).pathname
        ELSE ShellValues(ev).src_pathname]

\* C22: the command a job executes is the template with each placeholder of the
\* template replaced by the quoted primary flag, pathname and source pathname
\* (quoted empty string when absent); inserted text is not substituted again.
C22_Substitution ==
    shell.ev # <<>> => shell.out = SubstituteAll(shell.cmd, ByPlaceholder(shell.ev[1]))

\* For events whose pathname holds no placeholder text the command is the
\* template with its placeholders replaced.
C22_PlainPathnames ==
    (shell.ev # <<>> /\ shell.ev[1].pathname # <<"{src_pathname}">>)
        => shell.out = SubstituteAll(shell.cmd, ByPlaceholder(shell.ev[1]))

\* A job ran for the file named "{src_pathname}" with a template that holds
\* {pathname}: the name of the moved file was put inside the quoted pathname.
C22_Reinserted ==
    /\ shell.ev # <<>>
    /\ shell.cmd = <<"run", "{pathname}">>
    /\ shell.ev[1].pathname = <<"{src_pathname}">>
    /\ shell.ev[1].src_pathname = <<<<"f", " ", "g">>>>
    /\ shell.out = <<"run", "'", "'", "f", " ", "g", "'", "'">>

\* C36: every TaskState stored in tasks has a handle (task is not None).
C36_HandlePresent ==
    \A k \in Keys : tasks[k] # 0 => tstate[tasks[k]].task # 0

\* process_event found a stored TaskState without a handle and failed at
\* task_state.task.cancel().
C36_CancelOnNone ==
    \E a \in Evs :
        /\ events[a].flag = "sched"
        /\ act[a].pos = "error"
        /\ tstate[act[a].ts].task = 0

\* C37: when the loop has been stopped by a signal-driven shutdown in which no
\* scheduler's shutdown and no notifier teardown raised, every watch that was
\* started, of the active instance and of every instance a reload replaced, has
\* been stopped.
C37_AllWatchesStopped ==
    (/\ halted
     /\ \A g \in Gens : /\ gens[g].drain \notin {"error", "stoperror"}
                        /\ \A o \in Objs : gens[g].ss[o] # "raised")
        => \A g \in 1..ngen : \A i \in DOMAIN gens[g].watches :
               gens[g].wstart[i] > 0 => gens[g].wstop[i] > 0

\* The loop is stopped, the shutdown of the instance a reload replaced was
\* cancelled while it drained, and its watch was never stopped.
C37_OldWatchLeft ==
    /\ halted
    /\ ngen = 2
    /\ gens[2].drain = "done"
    /\ gens[1].drain = "cancelled"
    /\ 1 \in DOMAIN gens[1].watches
    /\ gens[1].wstart[1] = 1
    /\ gens[1].wstop[1] = 0

\* C38: while DaemonInstance._shutdown is set, the task of a further signal, for
\* shutdown or for reload, returns at once: no instance is built or started, no
\* drain begins, and the active instance and the running shutdown stay as they
\* are.
C38_Step ==
    (dflag /\ sigs # <<>> /\ sigs' = Tail(sigs) /\ ~halted') =>
        /\ gens' = gens
        /\ ngen' = ngen
        /\ cur' = cur
        /\ built' = built
        /\ dlog' = dlog
        /\ term' = term
        /\ dflag' = dflag

C38_SignalsIgnored == [][C38_Step]_vars

\* A shutdown signal was handled first and is still in progress; the task of a
\* second signal has run and the instance is the one main() built.
C38_Witness ==
    /\ dflag
    /\ term.pos = "await"
    /\ nsig = MaxSignals
    /\ sigs = <<>>
    /\ ngen = 1
    /\ built.n = 0

\* C40: the epilogue of a _run_job call that awaited the job finds at the key the
\* TaskState it ran the job for, and removes that entry.
C40_Step ==
    \A a \in Evs :
        (Runs("pe_wake") /\ Head(ready).id = a /\ act[a].pos = "job") =>
            /\ tasks[KeyOf(a)] = act[a].ts
            /\ act[a].ts # 0
            /\ act'[a].pos # "keyerror"
            /\ tasks'[KeyOf(a)] = 0

C40_EpilogueRemovesOwn == [][C40_Step]_vars

\* While the job ran, a cancel event for the key was skipped and left the entry;
\* the job finished and the epilogue removed the entry.
C40_Witness ==
    \E a, c \in Evs :
        /\ events[c].flag = "cancel"
        /\ act[c].pos = "skip"
        /\ act[c].ts = act[a].ts
        /\ act[a].pos = "finished"
        /\ tasks[KeyOf(a)] = 0

\* The latest job and its rule, event and destination.
FmJobRan == fm.job # <<>>
FmJobRule == fm.rules[fm.job[1].rule]
FmBefore == fm.job[1].fs
FmPath == fm.ev[1].pathname
FmCopyMove == FmJobRan /\ fm.job[1].rule # 0 /\ FmJobRule.action \in {"copy", "move"}
FmDelete == FmJobRan /\ fm.job[1].rule # 0 /\ FmJobRule.action = "delete"
DirsOf(fs) == {q \in DOMAIN fs : fs[q] = "dir"}

\* C31: process_event hands the event to TaskScheduler.process_event exactly when
\* it passes the files/dirs filter and a rule's src_re matches its pathname, and
\* otherwise leaves tasks as they are; the job applies the rule of least index
\* whose src_re matches.
C31_RuleDecides ==
    /\ fm.ev # <<>> =>
           /\ fm.delegated <=>
                  (/\ Accepted(fm.ev[1])
                   /\ \E i \in 1..Len(fm.rules) : FmPath \in fm.rules[i].src_re)
           /\ ~fm.delegated => (FmJobRan = FALSE /\ \A k \in Keys : tasks[k] = 0)
    /\ FmJobRan =>
           /\ fm.job[1].rule \in 1..Len(fm.rules)
           /\ FmPath \in FmJobRule.src_re
           /\ \A j \in 1..(fm.job[1].rule - 1) : FmPath \notin fm.rules[j].src_re

\* Two rules match the file; the job applied the first one, a copy.
C31_Witness ==
    /\ FmJobRan
    /\ Len(fm.rules) = 2
    /\ FmPath \in fm.rules[1].src_re
    /\ FmPath \in fm.rules[2].src_re
    /\ fm.job[1].rule = 1
    /\ fm.rules[1].action = "copy"
    /\ fm.job[1].err = "none"
    /\ Exists(fm.fs, fm.rules[1].dst)

\* An event passed the filter, no rule matched, and it was dropped.
C31_WitnessDropped ==
    /\ fm.ev # <<>>
    /\ Accepted(fm.ev[1])
    /\ ~fm.delegated

\* C32: when a call of the job fails (the substitution, makedirs, the copy,
\* rename or removal, chmod or chown), the job logs the exception and returns.
C32_FailureAbsorbed ==
    (FmJobRan /\ fm.job[1].err # "none")
        => (fm.job[1].outcome = "returned" /\ fm.job[1].log \in {"error", "exception"})

\* The substitution raised and the job logged the exception and returned.
C32_Witness ==
    /\ FmJobRan
    /\ fm.job[1].err = "sub"
    /\ fm.job[1].outcome = "returned"
    /\ fm.job[1].log = "exception"

\* The directories were made, the copy failed, and the job logged the error and
\* returned.
C32_WitnessOp ==
    /\ FmJobRan
    /\ fm.job[1].err = "op"
    /\ fm.job[1].created # {}
    /\ fm.job[1].outcome = "returned"
    /\ fm.job[1].log = "error"

\* C33: a copy or move job whose destination is empty, or exists while the rule
\* does not overwrite, logs an error, returns, and leaves the file system as it
\* was: nothing created, copied, renamed, chmod'ed or chown'ed.
C33_BlockedDestination ==
    (/\ FmCopyMove
     /\ fm.job[1].err # "sub"
     /\ \/ FmJobRule.dst = <<>>
        \/ Exists(FmBefore, FmJobRule.dst) /\ ~FmJobRule.overwrite)
        => /\ fm.job[1].outcome = "returned"
           /\ fm.job[1].log = "error"
           /\ fm.fs = FmBefore
           /\ fm.job[1].created = {}
           /\ fm.job[1].dirfixed = {}
           /\ fm.job[1].dstfixed = {}

\* The destination existed and the rule does not overwrite: error, nothing
\* changed.
C33_Witness ==
    /\ FmCopyMove
    /\ fm.job[1].err = "exists"
    /\ FmJobRule.auto_create
    /\ fm.fs = FmBefore

\* The destination was empty: error, nothing changed.
C33_WitnessEmpty ==
    /\ FmCopyMove
    /\ fm.job[1].err = "empty"
    /\ fm.fs = FmBefore

\* C34: for a copy or move job that returned and whose destination directory was
\* missing: with auto_create and no failing call, every directory above the
\* destination exists afterwards, the directory fixup touched only paths the job
\* created, and no directory that existed before was touched; without
\* auto_create, no directory above the destination was created.
C34_AutoCreate ==
    (/\ FmCopyMove
     /\ fm.job[1].outcome = "returned"
     /\ fm.job[1].err \notin {"sub", "empty", "exists"}
     /\ ~IsDir(FmBefore, Dirname(FmJobRule.dst)))
        => /\ (FmJobRule.auto_create /\ fm.job[1].err = "none") =>
                  /\ \A q \in Ancestors(Dirname(FmJobRule.dst)) : IsDir(fm.fs, q)
                  /\ fm.job[1].created = Ancestors(Dirname(FmJobRule.dst)) \ DOMAIN FmBefore
                  /\ fm.job[1].dirfixed \subseteq fm.job[1].created
                  /\ (fm.job[1].dirfixed \cup fm.job[1].dstfixed) \cap DirsOf(FmBefore) = {}
           /\ ~FmJobRule.auto_create =>
                  \A q \in Ancestors(Dirname(FmJobRule.dst)) :
                      Exists(fm.fs, q) => Exists(FmBefore, q)

\* The same for the jobs that do not copy a directory.
C34_ExceptCopytree ==
    (FmCopyMove /\ ~(FmJobRule.action = "copy" /\ IsDir(FmBefore, FmPath))) => C34_AutoCreate

\* A rule without auto_create copied the source directory: the two missing
\* directories above the destination exist now.
C34_ParentsCreated ==
    /\ FmCopyMove
    /\ ~FmJobRule.auto_create
    /\ FmJobRule.action = "copy"
    /\ FmPath = SrcDir
    /\ fm.job[1].err = "none"
    /\ ~Exists(FmBefore, <<"/", "e">>)
    /\ IsDir(fm.fs, <<"/", "e">>)
    /\ IsDir(fm.fs, <<"/", "e", "n">>)

\* With auto_create: two directories were made and mode and owner were set on
\* them and on nothing that existed before.
C34_WitnessCreated ==
    /\ FmCopyMove
    /\ FmJobRule.auto_create
    /\ fm.job[1].err = "none"
    /\ fm.job[1].created = {<<"/", "e">>, <<"/", "e", "n">>}
    /\ fm.job[1].dirfixed = fm.job[1].created

\* C35: a delete job whose removal call did not fail leaves no entry at the path:
\* of a directory with rec, of a directory without rec, of a file.
C35_DeleteRemoves ==
    (FmDelete /\ Exists(FmBefore, FmPath) /\ fm.job[1].err # "op")
        => ~Exists(fm.fs, FmPath)

\* The same without the directories of rules that have rec unset.
C35_ExceptRmdir ==
    (FmDelete /\ Exists(FmBefore, FmPath) /\ fm.job[1].err # "op"
     /\ ~(IsDir(FmBefore, FmPath) /\ ~FmJobRule.rec))
        => ~Exists(fm.fs, FmPath)

\* A delete rule with rec unset ran for the directory: error, the directory is
\* still there.
C35_DirectoryLeft ==
    /\ FmDelete
    /\ ~FmJobRule.rec
    /\ FmPath = SrcDir
    /\ fm.job[1].err = "rmdir"
    /\ fm.job[1].log = "error"
    /\ IsDir(fm.fs, SrcDir)

\* C39: the search for the first missing directory ends in every job.
C39_SearchEnds == FmJobRan => fm.job[1].outcome # "hang"

\* The same for the destinations that are absolute paths.
C39_AbsoluteEnds ==
    (FmJobRan /\ fm.job[1].rule # 0 /\ FmJobRule.dst # <<>> /\ FmJobRule.dst[1] = "/")
        => fm.job[1].outcome # "hang"

\* A rule with auto_create and a destination without directory component: the
\* loop never ends.
C39_Hangs ==
    /\ FmCopyMove
    /\ FmJobRule.dst = DstPlain
    /\ FmJobRule.auto_create
    /\ fm.job[1].outcome = "hang"

====
